---- MODULE Spec2Model ----
(***************************************************************************)
(* A model of yaml-rust: the scanner (src/src/scanner.rs), which turns a   *)
(* character source into tokens, and the parser (src/src/parser.rs), which *)
(* drives a state machine over those tokens and delivers events to a       *)
(* receiver.  The scanner state is one record, `sc`, whose fields are the   *)
(* fields of `struct Scanner`; every scanner function is an operator from   *)
(* scanner records to scanner records.  A function that returns            *)
(* `Err(ScanError)` leaves the error in the field `res`, and the `?`        *)
(* operator of the source is the test `Failed`.                            *)
(***************************************************************************)
EXTENDS Integers, Sequences, FiniteSets, TLC

VARIABLES
    input,      \* the characters of the source, a sequence of 1-character strings
    sc,         \* the Scanner
    out,        \* the tokens Scanner::next() has returned so far
    nones,      \* how many times Scanner::next() has returned None
    ps,         \* the Parser
    events,     \* the events delivered to the receiver
    ld,         \* the position of Parser::load and of the load_* functions it calls
    loader      \* the GenericYamlLoader that receives the events

vars == <<input, sc, out, nones, ps, events, ld, loader>>

-----------------------------------------------------------------------------
(* Bounds of the model. *)

\* the longest input, in pieces of PiecesScan / PiecesParse
MaxPieces == 4
\* calls of next() after the first None that the model follows
MaxNones == 2
MaxParts == 3
\* the deepest nesting of flow collections among the deeply nested inputs
MaxDepth == 257
\* the most events the loader is given by itself
MaxEvents == 7
\* the most pieces of the text of a scalar given to the loader
MaxTextParts == 2

-----------------------------------------------------------------------------
(* Characters. *)

NUL == "NUL"
LF == "\n"
CR == "\r"
TAB == "\t"
SP == " "
DQUOTE == "\""
BSLASH == "\\"
\* the grave accent, which the syntax of TLA+ keeps from a string
GRAVE == "GRAVE"

None == <<>>
Some(x) == <<x>>

Max(a, b) == IF a >= b THEN a ELSE b
Min(a, b) == IF a <= b THEN a ELSE b

\* `let x = e;`: F of the value e, which is evaluated once
Let(e, F(_)) == F(e)

is_z(c) == c = NUL
is_break(c) == c = LF \/ c = CR
is_breakz(c) == is_break(c) \/ is_z(c)
is_blank(c) == c = SP \/ c = TAB
is_blankz(c) == is_blank(c) \/ is_breakz(c)
Digits == {"0", "1", "2", "3", "4", "5", "6", "7", "8", "9"}
is_digit(c) == c \in Digits
Letters ==
    {"a", "b", "c", "d", "e", "f", "g", "h", "i", "j", "k", "l", "m", "n", "o", "p", "q", "r",
     "s", "t", "u", "v", "w", "x", "y", "z", "A", "B", "C", "D", "E", "F", "G", "H", "I", "J",
     "K", "L", "M", "N", "O", "P", "Q", "R", "S", "T", "U", "V", "W", "X", "Y", "Z"}
is_alpha(c) == c \in Digits \/ c \in Letters \/ c = "_" \/ c = "-"
is_flow(c) == c \in {",", "[", "]", "{", "}"}
is_bom(c) == c = "BOM"
is_yaml_non_break(c) == ~is_break(c) /\ ~is_bom(c)
is_yaml_non_space(c) == is_yaml_non_break(c) /\ ~is_blank(c)
is_anchor_char(c) == is_yaml_non_space(c) /\ ~is_flow(c) /\ ~is_z(c)

-----------------------------------------------------------------------------
(* Markers, errors, tokens. *)

Marker(i, l, c) == [index |-> i, line |-> l, col |-> c]

ScanError(mark, info) == [mark |-> mark, info |-> info]

\* Token(mark, TokenType): `t` is the variant of TokenType, `style` the
\* TScalarStyle of a Scalar, `v` the value of a Scalar, the name of an Anchor or
\* Alias, the suffix of a Tag, the prefix of a TagDirective; `h` the handle of
\* a Tag or TagDirective; `n` the <<major, minor>> of a VersionDirective.
Token(mark, t) == [mark |-> mark, t |-> t, style |-> "", v |-> <<>>, h |-> <<>>, n |-> <<>>]
ScalarToken(mark, style, v) == [Token(mark, "Scalar") EXCEPT !.style = style, !.v = v]
NamedToken(mark, t, v) == [Token(mark, t) EXCEPT !.v = v]
TagToken(mark, t, h, v) == [Token(mark, t) EXCEPT !.h = h, !.v = v]

\* SimpleKey::new
SimpleKey(mark) == [possible |-> FALSE, required |-> FALSE, token_number |-> 0, mark |-> mark]

Indent(indent, nbe) == [indent |-> indent, needs_block_end |-> nbe]

-----------------------------------------------------------------------------
(* The scanner: construction, the lookahead buffer, results. *)

\* Scanner::new
ScannerNew ==
    [ mark |-> Marker(0, 1, 0),
      buflen |-> 0,            \* buffer.len(); the buffer holds the characters from mark.index on
      tokens |-> <<>>,
      error |-> None,
      res |-> None,            \* the Err(..) the function under way returns, if any
      stream_start_produced |-> FALSE,
      stream_end_produced |-> FALSE,
      adjacent_value_allowed_at |-> 0,
      simple_key_allowed |-> TRUE,
      simple_keys |-> <<>>,
      indent |-> -1,
      indents |-> <<>>,
      flow_level |-> 0,
      tokens_parsed |-> 0,
      token_available |-> FALSE,
      leading_whitespace |-> TRUE,
      flow_mapping_started |-> FALSE,
      implicit_flow_mapping |-> FALSE ]

Failed(s) == s.res # None
Fail(s, mark, info) == [s EXCEPT !.res = Some(ScanError(mark, info))]

\* the character the source yields at 0-based position i: rdr.next().unwrap_or('\0')
CharAt(i) == IF i < Len(input) THEN input[i + 1] ELSE NUL

\* how many characters the source has handed out
RdrTaken(s) == Min(s.mark.index + s.buflen, Len(input))

lookahead(s, count) == [s EXCEPT !.buflen = Max(@, count)]

\* self.buffer[k]; indexing past the end of a VecDeque panics
BufferPanic == "PANIC"
buffer(s, k) == IF k < s.buflen THEN CharAt(s.mark.index + k) ELSE BufferPanic

ch(s) == buffer(s, 0)
ch_is(s, c) == buffer(s, 0) = c

skip(s) ==
    LET c == buffer(s, 0) IN
    [s EXCEPT !.buflen = @ - 1,
              !.mark = IF c = LF THEN Marker(@.index + 1, @.line + 1, 0)
                       ELSE Marker(@.index + 1, @.line, @.col + 1),
              !.leading_whitespace = IF c = LF THEN TRUE
                                     ELSE IF @ /\ ~is_blank(c) THEN FALSE ELSE @]

skip_line(s) ==
    IF buffer(s, 0) = CR /\ buffer(s, 1) = LF THEN skip(skip(s))
    ELSE IF is_break(buffer(s, 0)) THEN skip(s)
    ELSE s

look_ch(s) == ch(lookahead(s, 1))

\* read_break: consume a line break; the caller pushes "\n" into its string
read_break(s) ==
    IF buffer(s, 0) = CR /\ buffer(s, 1) = LF THEN skip(skip(s)) ELSE skip(s)

push_back(s, tok) == [s EXCEPT !.tokens = Append(@, tok)]

InsertAt(q, pos, x) == SubSeq(q, 1, pos) \o <<x>> \o SubSeq(q, pos + 1, Len(q))

\* insert_token asserts pos <= old_len
\* a Key that is queued behind the tokens instead of before its candidate
insert_token_at_back(s, pos, tok) == push_back(s, tok)

insert_token(s, pos, tok) ==
    IF pos < 0 \/ pos > Len(s.tokens)
    THEN Fail(s, s.mark, "PANIC: insert_token")
    ELSE [s EXCEPT !.tokens = InsertAt(@, pos, tok)]

allow_simple_key(s) == [s EXCEPT !.simple_key_allowed = TRUE]
disallow_simple_key(s) == [s EXCEPT !.simple_key_allowed = FALSE]

Last(q) == q[Len(q)]
Front(q) == SubSeq(q, 1, Len(q) - 1)

-----------------------------------------------------------------------------
(* Indentation. *)

\* the reach of a simple key, in characters (stale_simple_keys)
SimpleKeyReach == 1024

\* roll_indent that adds a level also at the column of the current indent
roll_indent_at_same_col(s, col, number, tok, mark) ==
    IF s.flow_level > 0 THEN s
    ELSE
      LET s1 == IF s.indent <= col /\ s.indents # <<>> /\ ~Last(s.indents).needs_block_end
                THEN [s EXCEPT !.indent = Last(s.indents).indent, !.indents = Front(@)]
                ELSE s
      IN IF s1.indent <= col
         THEN       Let([s1 EXCEPT !.indents = Append(@, Indent(s1.indent, TRUE)),
                                   !.indent = col], LAMBDA s2 :
                 IF number = None THEN push_back(s2, Token(mark, tok))
                 ELSE insert_token(s2, number[1] - s2.tokens_parsed, Token(mark, tok)))
         ELSE s1

roll_indent(s, col, number, tok, mark) ==
    IF s.flow_level > 0 THEN s
    ELSE
      LET s1 == IF s.indent <= col /\ s.indents # <<>> /\ ~Last(s.indents).needs_block_end
                THEN [s EXCEPT !.indent = Last(s.indents).indent, !.indents = Front(@)]
                ELSE s
      IN IF s1.indent < col
         THEN       Let([s1 EXCEPT !.indents = Append(@, Indent(s1.indent, TRUE)),
                                   !.indent = col], LAMBDA s2 :
                 IF number = None THEN push_back(s2, Token(mark, tok))
                 ELSE insert_token(s2, number[1] - s2.tokens_parsed, Token(mark, tok)))
         ELSE s1

RECURSIVE unroll_indent(_, _)
unroll_indent(s, col) ==
    IF s.flow_level > 0 THEN s
    ELSE IF s.indent > col
    THEN IF s.indents = <<>> THEN Fail(s, s.mark, "PANIC: unroll_indent pops an empty stack")
         ELSE LET indent == Last(s.indents)
                  s1 == [s EXCEPT !.indents = Front(@), !.indent = indent.indent]
              IN unroll_indent(IF indent.needs_block_end
                               THEN push_back(s1, Token(s1.mark, "BlockEnd"))
                               ELSE s1, col)
    ELSE s

\* roll_one_col_indent whose indent asks for a BlockEnd
roll_one_col_indent_with_block_end(s) ==
    IF s.flow_level = 0 /\ s.indents # <<>> /\ Last(s.indents).needs_block_end
    THEN [s EXCEPT !.indents = Append(@, Indent(s.indent, TRUE)), !.indent = @ + 1]
    ELSE s

\* roll_one_col_indent without self.indent += 1
roll_one_col_indent_same_col(s) ==
    IF s.flow_level = 0 /\ s.indents # <<>> /\ Last(s.indents).needs_block_end
    THEN [s EXCEPT !.indents = Append(@, Indent(s.indent, FALSE))]
    ELSE s

roll_one_col_indent(s) ==
    IF s.flow_level = 0 /\ s.indents # <<>> /\ Last(s.indents).needs_block_end
    THEN [s EXCEPT !.indents = Append(@, Indent(s.indent, FALSE)), !.indent = @ + 1]
    ELSE s

RECURSIVE unroll_non_block_indents(_)
unroll_non_block_indents(s) ==
    IF s.indents # <<>> /\ ~Last(s.indents).needs_block_end
    THEN unroll_non_block_indents([s EXCEPT !.indent = Last(s.indents).indent,
                                            !.indents = Front(@)])
    ELSE s

is_within_block(s) == s.indents # <<>>

-----------------------------------------------------------------------------
(* Simple keys. *)

save_simple_key(s) ==
    IF s.simple_key_allowed
    THEN IF s.flow_level > 0 /\ s.indent = s.mark.col /\ s.indents = <<>>
         THEN Fail(s, s.mark, "PANIC: save_simple_key unwraps no indent")
         ELSE
         LET required == s.flow_level > 0 /\ s.indent = s.mark.col
                         /\ Last(s.indents).needs_block_end
             sk == [possible |-> TRUE, required |-> required,
                    token_number |-> s.tokens_parsed + Len(s.tokens), mark |-> s.mark]
         IN [s EXCEPT !.simple_keys = Append(Front(@), sk)]
    ELSE s

remove_simple_key(s) ==
    LET last == Last(s.simple_keys) IN
    IF last.possible /\ last.required
    THEN Fail(s, s.mark, "simple key expected")
    ELSE [s EXCEPT !.simple_keys[Len(s.simple_keys)].possible = FALSE]

\* whether stale_simple_keys finds the key stale
IsStale(s, sk) ==
    /\ sk.possible
    /\ s.flow_level = 0
    /\ (sk.mark.line < s.mark.line \/ sk.mark.index + SimpleKeyReach < s.mark.index)

\* the first index of I, the index after the last of 1..n when I is empty: where
\* a `for` over n keys returns early
FirstOf(I, n) == IF I = {} THEN n + 1 ELSE CHOOSE i \in I : \A j \in I : i <= j

\* stale_simple_keys that finds a key stale only when it is on an earlier line
stale_simple_keys_by_line_only(s) ==
    LET n == Len(s.simple_keys)
        stale == { i \in 1..n : /\ s.simple_keys[i].possible
                                /\ s.flow_level = 0
                                /\ s.simple_keys[i].mark.line < s.mark.line }
        stop == FirstOf({ i \in stale : s.simple_keys[i].required }, n)
        keys == [i \in 1..n |-> IF i \in stale /\ i < stop
                                THEN [s.simple_keys[i] EXCEPT !.possible = FALSE]
                                ELSE s.simple_keys[i]]
    IN IF stop <= n
       THEN Fail([s EXCEPT !.simple_keys = keys], s.mark, "simple key expect ':'")
       ELSE [s EXCEPT !.simple_keys = keys]

\* the loop returns at the first stale key that is required; the stale keys
\* before it have been made impossible
stale_simple_keys(s) ==
    LET n == Len(s.simple_keys)
        stale == { i \in 1..n : IsStale(s, s.simple_keys[i]) }
        stop == FirstOf({ i \in stale : s.simple_keys[i].required }, n)
        keys == [i \in 1..n |-> IF i \in stale /\ i < stop
                                THEN [s.simple_keys[i] EXCEPT !.possible = FALSE]
                                ELSE s.simple_keys[i]]
    IN IF stop <= n
       THEN Fail([s EXCEPT !.simple_keys = keys], s.mark, "simple key expect ':'")
       ELSE [s EXCEPT !.simple_keys = keys]

end_implicit_mapping(s, mark) ==
    IF s.implicit_flow_mapping
    THEN push_back([s EXCEPT !.implicit_flow_mapping = FALSE, !.flow_mapping_started = FALSE],
                   Token(mark, "FlowMappingEnd"))
    ELSE s

-----------------------------------------------------------------------------
(* Whitespace and comments. *)

\* while !is_breakz(self.ch()) { self.skip(); self.lookahead(1); }
RECURSIVE skip_to_eol(_)
skip_to_eol(s) ==
    IF ~is_breakz(ch(s)) THEN skip_to_eol(lookahead(skip(s), 1)) ELSE s

\* skip_ws_to_eol returns SkipTabs::Result(encountered_tab, has_yaml_ws); here
\* the result is <<scanner, encountered_tab, has_yaml_ws>>
RECURSIVE skip_ws_to_eol_loop(_, _, _, _)
skip_ws_to_eol_loop(s0, skip_tabs, tab, ws) ==
    LET s == lookahead(s0, 1) IN
       Let(ch(s), LAMBDA c :
       IF c = SP THEN skip_ws_to_eol_loop(skip(s), skip_tabs, tab, TRUE)
       ELSE IF c = TAB /\ skip_tabs THEN skip_ws_to_eol_loop(skip(s), skip_tabs, TRUE, ws)
       ELSE IF c = "#" THEN skip_ws_to_eol_loop(skip_to_eol(s), skip_tabs, tab, ws)
       ELSE <<s, tab, ws>>)

skip_ws_to_eol(s, skip_tabs) == skip_ws_to_eol_loop(s, skip_tabs, FALSE, FALSE)

RECURSIVE skip_to_next_token(_)
skip_to_next_token(s0) ==
    LET s == lookahead(s0, 1) IN
       Let(ch(s), LAMBDA c :
       IF c = SP THEN skip_to_next_token(skip(s))
       ELSE IF c = TAB /\ is_within_block(s) /\ s.leading_whitespace /\ s.mark.col < s.indent
       THEN Let(skip_ws_to_eol(s, TRUE)[1], LAMBDA s1 :
               IF ~is_breakz(ch(s1))
               THEN Fail(s1, s1.mark, "tabs disallowed within this context (block indentation)")
               ELSE skip_to_next_token(s1))
       ELSE IF c = TAB THEN skip_to_next_token(skip(s))
       ELSE IF is_break(c)
       THEN Let(skip_line(lookahead(s, 2)), LAMBDA s1 :
               skip_to_next_token(IF s1.flow_level = 0 THEN allow_simple_key(s1) ELSE s1))
       ELSE IF c = "#" THEN skip_to_next_token(skip_to_eol(s))
       ELSE s)

RECURSIVE skip_yaml_whitespace_loop(_, _)
skip_yaml_whitespace_loop(s0, need_whitespace) ==
    LET s == lookahead(s0, 1) IN
       Let(ch(s), LAMBDA c :
       IF c = SP THEN skip_yaml_whitespace_loop(skip(s), FALSE)
       ELSE IF is_break(c)
       THEN Let(skip_line(lookahead(s, 2)), LAMBDA s1 :
               skip_yaml_whitespace_loop(IF s1.flow_level = 0 THEN allow_simple_key(s1) ELSE s1,
                                         FALSE))
       ELSE IF c = "#" THEN skip_yaml_whitespace_loop(skip_to_eol(s), need_whitespace)
       ELSE IF need_whitespace THEN Fail(s, s.mark, "expected whitespace")
       ELSE s)

skip_yaml_whitespace(s) == skip_yaml_whitespace_loop(s, TRUE)

-----------------------------------------------------------------------------
(* Stream, document, flow and block indicators. *)

\* `?`: go on with F unless the scanner has failed
Then(s, F(_)) == IF Failed(s) THEN s ELSE F(s)

fetch_stream_start(s) ==
    LET s1 == allow_simple_key([s EXCEPT !.indent = -1, !.stream_start_produced = TRUE])
        s2 == push_back(s1, Token(s.mark, "StreamStart"))
    IN [s2 EXCEPT !.simple_keys = Append(@, SimpleKey(Marker(0, 0, 0)))]

\* the loop of fetch_stream_end: the first required and possible key is an error,
\* the keys before it have been made impossible
stream_end_keys(s) ==
    LET n == Len(s.simple_keys)
        stop == FirstOf({ i \in 1..n : s.simple_keys[i].required /\ s.simple_keys[i].possible },
                        n)
        keys == [i \in 1..n |-> IF i < stop
                                THEN [s.simple_keys[i] EXCEPT !.possible = FALSE]
                                ELSE s.simple_keys[i]]
    IN IF stop <= n
       THEN Fail([s EXCEPT !.simple_keys = keys], s.mark, "simple key expected")
       ELSE [s EXCEPT !.simple_keys = keys]

\* fetch_stream_end that queues no token
fetch_stream_end_without_token(s) ==
    LET s2 == stream_end_keys(s)
        s3 == Then(s2, LAMBDA x : unroll_indent(x, -1))
        s4 == Then(s3, remove_simple_key)
    IN Then(s4, disallow_simple_key)

fetch_stream_end(s) ==
    LET s1 == IF s.mark.col # 0
              THEN [s EXCEPT !.mark = Marker(@.index, @.line + 1, 0)]
              ELSE s
        s2 == stream_end_keys(s1)
        s3 == Then(s2, LAMBDA x : unroll_indent(x, -1))
        s4 == Then(s3, remove_simple_key)
    IN Then(s4, LAMBDA x : push_back(disallow_simple_key(x), Token(x.mark, "StreamEnd")))

fetch_document_indicator(s, t) ==
    LET s1 == unroll_indent(s, -1)
        s2 == Then(s1, remove_simple_key)
    IN Then(s2, LAMBDA x : push_back(skip(skip(skip(disallow_simple_key(x)))), Token(x.mark, t)))

\* the flow level is a u8
FlowLevelMax == 255

\* self.flow_level = self.flow_level.wrapping_add(1) in place of checked_add
increase_flow_level_wrapping(s) ==
    [s EXCEPT !.simple_keys = Append(@, SimpleKey(Marker(0, 0, 0))),
              !.flow_level = (@ + 1) % (FlowLevelMax + 1)]

increase_flow_level(s) ==
    LET s1 == [s EXCEPT !.simple_keys = Append(@, SimpleKey(Marker(0, 0, 0)))]
    IN IF s1.flow_level + 1 > FlowLevelMax
       THEN Fail(s1, s1.mark, "recursion limit exceeded")
       ELSE [s1 EXCEPT !.flow_level = @ + 1]

\* decrease_flow_level that pops a slot also when the flow level is 0
decrease_flow_level_popping(s) ==
    [s EXCEPT !.flow_level = IF @ > 0 THEN @ - 1 ELSE 0, !.simple_keys = Front(@)]

decrease_flow_level(s) ==
    IF s.flow_level > 0
    THEN [s EXCEPT !.flow_level = @ - 1, !.simple_keys = Front(@)]
    ELSE s

fetch_flow_collection_start(s, tok) ==
    LET s1 == save_simple_key(s)
        s2 == Then(s1, roll_one_col_indent)
        s3 == Then(s2, increase_flow_level)
    IN Then(s3, LAMBDA x :
            Let(skip(allow_simple_key(x)), LAMBDA x1 :
            LET x2 == IF tok = "FlowMappingStart"
                      THEN [x1 EXCEPT !.flow_mapping_started = TRUE]
                      ELSE x1
            IN push_back(x2, Token(x.mark, tok))))

fetch_flow_collection_end(s, tok) ==
    Then(remove_simple_key(s), LAMBDA x :
        LET x1 == disallow_simple_key(decrease_flow_level(x)) IN
           Let(end_implicit_mapping(x1, x1.mark), LAMBDA x2 :
           push_back(skip(x2), Token(x2.mark, tok))))

fetch_flow_entry(s) ==
    Then(remove_simple_key(s), LAMBDA x :
        LET x1 == allow_simple_key(x) IN
           Let(end_implicit_mapping(x1, x1.mark), LAMBDA x2 :
           push_back(skip(x2), Token(x2.mark, "FlowEntry"))))

fetch_block_entry(s) ==
    IF s.flow_level > 0 THEN Fail(s, s.mark, "\"-\" is only valid inside a block")
    ELSE IF ~s.simple_key_allowed
    THEN Fail(s, s.mark, "block sequence entries are not allowed in this context")
    ELSE
      LET mark == s.mark
          s1 == roll_indent(skip(s), mark.col, None, "BlockSequenceStart", mark) IN
         Let(skip_ws_to_eol(s1, TRUE), LAMBDA r :
         Let(lookahead(r[1], 2), LAMBDA s2 :
         IF r[2] /\ buffer(s2, 0) = "-" /\ is_blankz(buffer(s2, 1))
         THEN Fail(s2, s2.mark, "'-' must be followed by a valid YAML whitespace")
         ELSE
           Let(lookahead(skip_ws_to_eol(s2, FALSE)[1], 1), LAMBDA s3 :
           LET s4 == IF is_break(ch(s3)) \/ is_flow(ch(s3)) THEN roll_one_col_indent(s3) ELSE s3
           IN Then(remove_simple_key(s4), LAMBDA x :
                  push_back(allow_simple_key(x), Token(x.mark, "BlockEntry"))))))

-----------------------------------------------------------------------------
(* Anchors and aliases. *)

RECURSIVE scan_anchor_name(_, _)
scan_anchor_name(s0, string) ==
    LET s == lookahead(s0, 1) IN
    IF is_anchor_char(ch(s)) THEN scan_anchor_name(skip(s), Append(string, ch(s)))
    ELSE <<s, string>>

\* scan_anchor and the push of its token
fetch_anchor(s, alias) ==
    LET s1 == disallow_simple_key(save_simple_key(s)) IN
    Then(s1, LAMBDA x :
        LET start_mark == x.mark IN
           Let(scan_anchor_name(skip(x), <<>>), LAMBDA r :
           IF r[2] = <<>>
           THEN Fail(r[1], start_mark,
                     "while scanning an anchor or alias, did not find expected alphabetic or numeric character")
           ELSE push_back(r[1], NamedToken(start_mark, IF alias THEN "Alias" ELSE "Anchor", r[2]))))

-----------------------------------------------------------------------------
(* Keys and values. *)

fetch_key(s) ==
    LET start_mark == s.mark IN
    IF s.flow_level = 0 /\ ~s.simple_key_allowed
    THEN Fail(s, s.mark, "mapping keys are not allowed in this context")
    ELSE
      LET s1 == IF s.flow_level = 0
                THEN roll_indent(s, start_mark.col, None, "BlockMappingStart", start_mark)
                ELSE [s EXCEPT !.flow_mapping_started = TRUE]
          s2 == Then(s1, remove_simple_key)
      IN Then(s2, LAMBDA x :
             LET x1 == IF x.flow_level = 0 THEN allow_simple_key(x) ELSE disallow_simple_key(x)
                 x2 == skip_yaml_whitespace(skip(x1))
             IN Then(x2, LAMBDA y :
                    IF ch(y) = TAB THEN Fail(y, y.mark, "tabs disallowed in this context")
                    ELSE push_back(y, Token(start_mark, "Key"))))

\* fetch_value_simple_key that allows simple keys after the ':'
fetch_value_simple_key_allowing_keys(s, sk, start_mark) ==
    LET s1 == insert_token(s, sk.token_number - s.tokens_parsed, Token(sk.mark, "Key"))
        s2 == Then(s1, LAMBDA x :
                 IF x.implicit_flow_mapping
                 THEN IF sk.mark.line < start_mark.line
                      THEN Fail(x, start_mark, "illegal placement of ':' indicator")
                      ELSE insert_token(x, sk.token_number - x.tokens_parsed,
                                        Token(x.mark, "FlowMappingStart"))
                 ELSE x)
        s3 == Then(s2, LAMBDA x :
                 roll_indent(x, sk.mark.col, Some(sk.token_number), "BlockMappingStart",
                             start_mark))
    IN Then(s3, LAMBDA x :
           LET x1 == roll_one_col_indent(x)
           IN allow_simple_key([x1 EXCEPT !.simple_keys[Len(x1.simple_keys)].possible = FALSE]))

\* the branch of fetch_value for a ':' that follows a possible simple key
fetch_value_simple_key(s, sk, start_mark) ==
    LET s1 == insert_token(s, sk.token_number - s.tokens_parsed, Token(sk.mark, "Key"))
        s2 == Then(s1, LAMBDA x :
                 IF x.implicit_flow_mapping
                 THEN IF sk.mark.line < start_mark.line
                      THEN Fail(x, start_mark, "illegal placement of ':' indicator")
                      ELSE insert_token(x, sk.token_number - x.tokens_parsed,
                                        Token(x.mark, "FlowMappingStart"))
                 ELSE x)
        s3 == Then(s2, LAMBDA x :
                 roll_indent(x, sk.mark.col, Some(sk.token_number), "BlockMappingStart",
                             start_mark))
    IN Then(s3, LAMBDA x :
           LET x1 == roll_one_col_indent(x)
           IN disallow_simple_key([x1 EXCEPT !.simple_keys[Len(x1.simple_keys)].possible = FALSE]))

\* the branch of fetch_value for a ':' that follows a complex key or nothing
fetch_value_complex_key(s, start_mark) ==
    LET s1 == IF s.implicit_flow_mapping
              THEN push_back(s, Token(s.mark, "FlowMappingStart"))
              ELSE s
    IN IF s1.flow_level = 0 /\ ~s1.simple_key_allowed
       THEN Fail(s1, start_mark, "mapping values are not allowed in this context")
       ELSE
         LET s2 == IF s1.flow_level = 0
                   THEN roll_indent(s1, start_mark.col, None, "BlockMappingStart", start_mark)
                   ELSE s1
             s3 == Then(s2, roll_one_col_indent)
         IN Then(s3, LAMBDA x :
                IF x.flow_level = 0 THEN allow_simple_key(x) ELSE disallow_simple_key(x))

fetch_value(s) ==
    LET sk == Last(s.simple_keys)
        start_mark == s.mark IN
          Let(lookahead(skip([s EXCEPT !.implicit_flow_mapping =
                                  s.flow_level > 0 /\ ~s.flow_mapping_started]), 1), LAMBDA s1 :
        \* the tab check skips whitespace only when the next character is a tab
       Let(IF ch(s1) = TAB THEN skip_ws_to_eol(s1, TRUE) ELSE <<s1, FALSE, FALSE>>, LAMBDA r :
       Let(r[1], LAMBDA s2 :
       IF ch(s1) = TAB /\ ~r[3] /\ (ch(s2) = "-" \/ is_alpha(ch(s2)))
       THEN Fail(s2, s2.mark, "':' must be followed by a valid YAML whitespace")
       ELSE
         LET s3 == IF sk.possible THEN fetch_value_simple_key(s2, sk, start_mark)
                   ELSE fetch_value_complex_key(s2, start_mark)
         IN Then(s3, LAMBDA x : push_back(x, Token(start_mark, "Value"))))))

-----------------------------------------------------------------------------
(* Plain scalars.  The locals of scan_plain_scalar are the fields of a      *)
(* record: s the scanner, string, leading_break, trailing_breaks,           *)
(* whitespaces, leading_blanks.                                             *)

\* col == 0 and "---" or "..." followed by a blank, a break or the end
at_document_indicator(s) ==
    /\ s.mark.col = 0
    /\ \/ buffer(s, 0) = "-" /\ buffer(s, 1) = "-" /\ buffer(s, 2) = "-"
       \/ buffer(s, 0) = "." /\ buffer(s, 1) = "." /\ buffer(s, 2) = "."
    /\ is_blankz(buffer(s, 3))

\* plain_join that keeps the first line break before blank lines
plain_join_keeping_first_break(p) ==
    IF p.leading_blanks
    THEN IF p.leading_break # <<>> /\ p.trailing_breaks = <<>>
         THEN [p EXCEPT !.string = Append(@, SP), !.leading_break = <<>>,
                        !.leading_blanks = FALSE]
         ELSE [p EXCEPT !.string = @ \o p.leading_break \o p.trailing_breaks,
                        !.trailing_breaks = <<>>, !.leading_break = <<>>,
                        !.leading_blanks = FALSE]
    ELSE [p EXCEPT !.string = @ \o p.whitespaces, !.whitespaces = <<>>]

\* the folding of line breaks and the joining of whitespace before a character
\* of content is pushed (scan_plain_scalar)
plain_join(p) ==
    IF p.leading_blanks
    THEN IF p.leading_break = <<>>
         THEN [p EXCEPT !.string = @ \o p.leading_break \o p.trailing_breaks,
                        !.trailing_breaks = <<>>, !.leading_break = <<>>,
                        !.leading_blanks = FALSE]
         ELSE IF p.trailing_breaks = <<>>
         THEN [p EXCEPT !.string = Append(@, SP), !.leading_break = <<>>,
                        !.leading_blanks = FALSE]
         ELSE [p EXCEPT !.string = @ \o p.trailing_breaks, !.trailing_breaks = <<>>,
                        !.leading_break = <<>>, !.leading_blanks = FALSE]
    ELSE [p EXCEPT !.string = @ \o p.whitespaces, !.whitespaces = <<>>]

\* whether the character at the cursor ends a plain scalar
plain_indicator(s) ==
    \/ ch(s) = ":" /\ (is_blankz(buffer(s, 1)) \/ (s.flow_level > 0 /\ is_flow(buffer(s, 1))))
    \/ is_flow(ch(s)) /\ s.flow_level > 0

\* while !is_blankz(self.ch()) { .. }: the characters of one word
RECURSIVE plain_chars(_)
plain_chars(p) ==
    IF is_blankz(ch(p.s)) \/ plain_indicator(p.s) THEN p
    ELSE LET p1 == IF p.leading_blanks \/ p.whitespaces # <<>> THEN plain_join(p) ELSE p
         IN plain_chars([p1 EXCEPT !.string = Append(@, ch(p.s)),
                                   !.s = lookahead(skip(p.s), 2)])

\* while is_blank(self.look_ch()) || is_break(self.ch()) { .. }: the blanks
\* and breaks after a word; `indent` is the indent of the scalar
RECURSIVE plain_blanks(_, _, _)
plain_blanks(p0, indent, start_mark) ==
    LET p == [p0 EXCEPT !.s = lookahead(@, 1)]
        s == p.s
    IN IF ~(is_blank(ch(s)) \/ is_break(ch(s))) THEN p
       ELSE IF is_blank(ch(s))
       THEN IF p.leading_blanks /\ s.mark.col < indent /\ ch(s) = TAB
            THEN Let(skip_ws_to_eol(s, TRUE)[1], LAMBDA s1 :
                    IF is_breakz(ch(s1)) THEN plain_blanks([p EXCEPT !.s = s1], indent, start_mark)
                    ELSE [p EXCEPT !.s = Fail(s1, start_mark,
                                              "while scanning a plain scalar, found a tab")])
            ELSE plain_blanks([p EXCEPT !.whitespaces = IF ~p.leading_blanks
                                                        THEN Append(@, ch(s)) ELSE @,
                                        !.s = skip(s)], indent, start_mark)
       ELSE Let(read_break(lookahead(s, 2)), LAMBDA s1 :
               IF p.leading_blanks
               THEN plain_blanks([p EXCEPT !.trailing_breaks = Append(@, LF), !.s = s1],
                                 indent, start_mark)
               ELSE plain_blanks([p EXCEPT !.whitespaces = <<>>,
                                           !.leading_break = Append(@, LF),
                                           !.leading_blanks = TRUE, !.s = s1],
                                 indent, start_mark))

\* loop { .. } of scan_plain_scalar
RECURSIVE plain_loop(_, _, _)
plain_loop(p0, indent, start_mark) ==
    LET p == [p0 EXCEPT !.s = lookahead(@, 4)] IN
    IF at_document_indicator(p.s) \/ ch(p.s) = "#" THEN p
    ELSE Let(plain_chars(p), LAMBDA p1 :
            IF ~(is_blank(ch(p1.s)) \/ is_break(ch(p1.s))) THEN p1
            ELSE Let(plain_blanks(p1, indent, start_mark), LAMBDA p2 :
                    IF Failed(p2.s) THEN p2
                    ELSE IF p2.s.flow_level = 0 /\ p2.s.mark.col < indent THEN p2
                    ELSE plain_loop(p2, indent, start_mark)))

scan_plain_scalar(s) ==
    LET s1 == unroll_non_block_indents(s)
        indent == s1.indent + 1
        start_mark == s1.mark IN
         Let(plain_loop([s |-> s1, string |-> <<>>, leading_break |-> <<>>,
                         trailing_breaks |-> <<>>, whitespaces |-> <<>>,
                         leading_blanks |-> TRUE], indent, start_mark), LAMBDA p :
       Then(p.s, LAMBDA x :
           push_back(IF p.leading_blanks THEN allow_simple_key(x) ELSE x,
                     ScalarToken(start_mark, "Plain", p.string))))

fetch_plain_scalar(s) == scan_plain_scalar(disallow_simple_key(save_simple_key(s)))

-----------------------------------------------------------------------------
(* Characters as code points: hexadecimal digits and char::from_u32. *)

HexDigits == <<"0", "1", "2", "3", "4", "5", "6", "7", "8", "9">>

is_hex(c) == c \in Digits \/ c \in {"a", "b", "c", "d", "e", "f"} \/ c \in {"A", "B", "C", "D", "E", "F"}

as_hex(c) ==
    IF c \in Digits THEN (CHOOSE i \in 1..10 : HexDigits[i] = c) - 1
    ELSE CASE c \in {"a", "A"} -> 10 [] c \in {"b", "B"} -> 11 [] c \in {"c", "C"} -> 12
           [] c \in {"d", "D"} -> 13 [] c \in {"e", "E"} -> 14 [] c \in {"f", "F"} -> 15

\* the printable ASCII characters, from code point 32 to 126
AsciiChars ==
    <<SP, "!", DQUOTE, "#", "$", "%", "&", "'", "(", ")", "*", "+", ",", "-", ".", "/",
      "0", "1", "2", "3", "4", "5", "6", "7", "8", "9", ":", ";", "<", "=", ">", "?",
      "@", "A", "B", "C", "D", "E", "F", "G", "H", "I", "J", "K", "L", "M", "N", "O",
      "P", "Q", "R", "S", "T", "U", "V", "W", "X", "Y", "Z", "[", BSLASH, "]", "^", "_",
      GRAVE, "a", "b", "c", "d", "e", "f", "g", "h", "i", "j", "k", "l", "m", "n", "o",
      "p", "q", "r", "s", "t", "u", "v", "w", "x", "y", "z", "{", "|", "}", "~">>

\* the character with the given code point: a 1-character string for ASCII,
\* and the string "U+<code>" otherwise
CharOfCode(code) ==
    IF code >= 32 /\ code <= 126 THEN AsciiChars[code - 31]
    ELSE IF code = 0 THEN NUL
    ELSE IF code = 9 THEN TAB
    ELSE IF code = 10 THEN LF
    ELSE IF code = 13 THEN CR
    ELSE "U+" \o ToString(code)

\* char::from_u32: None for a surrogate and for a value above 0x10FFFF
from_u32(code) ==
    IF code > 1114111 \/ (code >= 55296 /\ code <= 57343) THEN None
    ELSE Some(CharOfCode(code))

-----------------------------------------------------------------------------
(* Tags. *)

\* scan_uri_escapes; the result is <<scanner, character>>.  `code` is a u32
\* and `(code << 8) + octet` is above 0x10FFFF as soon as code >= 0x1100: the
\* model keeps 0x110000 in place of such a value, which from_u32 rejects alike
RECURSIVE scan_uri_escapes_loop(_, _, _, _)
scan_uri_escapes_loop(s0, mark, width, code) ==
    LET s == lookahead(s0, 3) IN
    IF ~(ch(s) = "%" /\ is_hex(buffer(s, 1)) /\ is_hex(buffer(s, 2)))
    THEN <<Fail(s, mark, "while parsing a tag, did not find URI escaped octet"), NUL>>
    ELSE
           Let(as_hex(buffer(s, 1)) * 16 + as_hex(buffer(s, 2)), LAMBDA octet :
           Let(IF width # 0 THEN width
               ELSE IF octet < 128 THEN 1
               ELSE IF octet >= 192 /\ octet < 224 THEN 2
               ELSE IF octet >= 224 /\ octet < 240 THEN 3
               ELSE IF octet >= 240 /\ octet < 248 THEN 4
               ELSE 0, LAMBDA w :
           Let(IF width = 0 THEN octet
               ELSE IF code >= 4352 THEN 1114112
               ELSE code * 256 + octet, LAMBDA c :
         Let(skip(skip(skip(s))), LAMBDA s1 :
         IF width = 0 /\ w = 0
         THEN <<Fail(s, mark, "while parsing a tag, found an incorrect leading UTF-8 octet"), NUL>>
         ELSE IF width # 0 /\ ~(octet >= 128 /\ octet < 192)
         THEN <<Fail(s, mark, "while parsing a tag, found an incorrect trailing UTF-8 octet"), NUL>>
         ELSE IF w - 1 = 0
         THEN IF from_u32(c) = None
              THEN <<Fail(s1, mark, "while parsing a tag, found an invalid UTF-8 codepoint"), NUL>>
              ELSE <<s1, from_u32(c)[1]>>
         ELSE scan_uri_escapes_loop(s1, mark, w - 1, c)))))

scan_uri_escapes(s, mark) == scan_uri_escapes_loop(s, mark, 0, 0)

is_uri_char(c) ==
    \/ c \in {";", "/", "?", ":", "@", "&", "=", "+", "$", ",", ".", "!", "~", "*", "'", "(", ")",
              "[", "]", "%"}
    \/ is_alpha(c)

\* the loop of scan_tag_uri; the result is <<scanner, string, length>>
RECURSIVE scan_tag_uri_loop(_, _, _, _)
scan_tag_uri_loop(s0, mark, string, length) ==
    LET s == lookahead(s0, 1) IN
    IF ~is_uri_char(ch(s)) THEN <<s, string, length>>
    ELSE IF ch(s) = "%"
    THEN Let(scan_uri_escapes(s, mark), LAMBDA r :
            IF Failed(r[1]) THEN <<r[1], string, length>>
            ELSE scan_tag_uri_loop(r[1], mark, Append(string, r[2]), length + 1))
    ELSE scan_tag_uri_loop(skip(s), mark, Append(string, ch(s)), length + 1)

\* scan_tag_uri; the result is <<scanner, string>>
scan_tag_uri(s, head, mark) ==
       Let(scan_tag_uri_loop(s, mark, IF Len(head) > 1 THEN Tail(head) ELSE <<>>, Len(head)), LAMBDA r :
       IF Failed(r[1]) THEN <<r[1], r[2]>>
       ELSE IF r[3] = 0
       THEN <<Fail(r[1], mark, "while parsing a tag, did not find expected tag URI"), r[2]>>
       ELSE <<r[1], r[2]>>)

RECURSIVE scan_alpha(_, _)
scan_alpha(s0, string) ==
    LET s == lookahead(s0, 1) IN
    IF is_alpha(ch(s)) THEN scan_alpha(skip(s), Append(string, ch(s))) ELSE <<s, string>>

\* scan_tag_handle; the result is <<scanner, string>>
scan_tag_handle(s0, directive, mark) ==
    LET s == lookahead(s0, 1) IN
    IF ch(s) # "!"
    THEN <<Fail(s, mark, "while scanning a tag, did not find expected '!'"), <<>>>>
    ELSE Let(scan_alpha(skip(s), <<"!">>), LAMBDA r :
            IF ch(r[1]) = "!" THEN <<skip(r[1]), Append(r[2], "!")>>
            ELSE IF directive /\ r[2] # <<"!">>
            THEN <<Fail(r[1], mark, "while parsing a tag directive, did not find expected '!'"),
                   r[2]>>
            ELSE r)

\* scan_tag; the result is <<scanner, handle, suffix>>
scan_tag_parts(s0) ==
    LET start_mark == s0.mark
        s == lookahead(s0, 2)
    IN IF buffer(s, 1) = "<"
       THEN Let(scan_tag_uri(skip(skip(s)), <<>>, start_mark), LAMBDA r :
               IF Failed(r[1]) THEN <<r[1], <<>>, r[2]>>
               ELSE IF ch(r[1]) # ">"
               THEN <<Fail(r[1], start_mark, "while scanning a tag, did not find the expected '>'"),
                      <<>>, r[2]>>
               ELSE <<skip(r[1]), <<>>, r[2]>>)
       ELSE Let(scan_tag_handle(s, FALSE, start_mark), LAMBDA h :
               Let(h[2], LAMBDA handle :
               IF Failed(h[1]) THEN <<h[1], handle, <<>>>>
               ELSE IF Len(handle) >= 2 /\ handle[1] = "!" /\ Last(handle) = "!"
               THEN Let(scan_tag_uri(h[1], <<>>, start_mark), LAMBDA r :
                       <<r[1], handle, r[2]>>)
               ELSE Let(scan_tag_uri(h[1], handle, start_mark), LAMBDA r :
                       IF Failed(r[1]) THEN <<r[1], handle, r[2]>>
                       ELSE IF r[2] = <<>> THEN <<r[1], <<>>, <<"!">>>>
                       ELSE <<r[1], <<"!">>, r[2]>>)))

scan_tag(s) ==
    LET start_mark == s.mark IN
       Let(scan_tag_parts(s), LAMBDA r :
       Then(r[1], LAMBDA x :
           IF is_blankz(look_ch(x))
           THEN push_back(lookahead(x, 1), TagToken(start_mark, "Tag", r[2], r[3]))
           ELSE Fail(lookahead(x, 1), start_mark,
                     "while scanning a tag, did not find expected whitespace or line break")))

fetch_tag(s) == scan_tag(disallow_simple_key(save_simple_key(s)))

-----------------------------------------------------------------------------
(* Directives. *)

RECURSIVE skip_blanks(_)
skip_blanks(s0) ==
    LET s == lookahead(s0, 1) IN IF is_blank(ch(s)) THEN skip_blanks(skip(s)) ELSE s

\* scan_directive_name; the result is <<scanner, string>>
scan_directive_name(s) ==
    LET start_mark == s.mark IN
       Let(scan_alpha(s, <<>>), LAMBDA r :
       IF r[2] = <<>>
       THEN <<Fail(r[1], start_mark,
                   "while scanning a directive, could not find expected directive name"), r[2]>>
       ELSE IF ~is_blankz(ch(r[1]))
       THEN <<Fail(r[1], start_mark,
                   "while scanning a directive, found unexpected non-alphabetical character"), r[2]>>
       ELSE r)

\* the longest version number, in digits
MaxVersionDigits == 9

\* scan_version_directive_number; the result is <<scanner, val>>
RECURSIVE scan_version_directive_number_loop(_, _, _, _)
scan_version_directive_number_loop(s0, mark, val, length) ==
    LET s == lookahead(s0, 1) IN
    IF is_digit(ch(s))
    THEN IF length + 1 > MaxVersionDigits
         THEN <<Fail(s, mark,
                     "while scanning a YAML directive, found extremely long version number"), val>>
         ELSE scan_version_directive_number_loop(skip(s), mark, val * 10 + as_hex(ch(s)),
                                                 length + 1)
    ELSE IF length = 0
    THEN <<Fail(s, mark, "while scanning a YAML directive, did not find expected version number"),
           val>>
    ELSE <<s, val>>

scan_version_directive_number(s, mark) == scan_version_directive_number_loop(s, mark, 0, 0)

\* the result is <<scanner, token>>
scan_version_directive_value(s, mark) ==
    Let(scan_version_directive_number(skip_blanks(s), mark), LAMBDA major :
    IF Failed(major[1]) THEN <<major[1], Token(mark, "NoToken")>>
    ELSE IF ch(major[1]) # "."
    THEN <<Fail(major[1], mark,
                "while scanning a YAML directive, did not find expected digit or '.' character"),
           Token(mark, "NoToken")>>
    ELSE Let(scan_version_directive_number(skip(major[1]), mark), LAMBDA minor :
            <<minor[1], [Token(mark, "VersionDirective") EXCEPT !.n = <<major[2], minor[2]>>]>>))

\* the result is <<scanner, token>>
scan_tag_directive_value(s, mark) ==
    Let(scan_tag_handle(skip_blanks(s), TRUE, mark), LAMBDA h :
    IF Failed(h[1]) THEN <<h[1], Token(mark, "NoToken")>>
    ELSE Let(scan_tag_uri(skip_blanks(h[1]), <<>>, mark), LAMBDA r :
            Let(lookahead(r[1], 1), LAMBDA s1 :
            IF Failed(s1) THEN <<s1, Token(mark, "NoToken")>>
            ELSE IF is_blankz(ch(s1)) THEN <<s1, TagToken(mark, "TagDirective", h[2], r[2])>>
            ELSE <<Fail(s1, mark,
                        "while scanning TAG, did not find expected whitespace or line break"),
                   Token(mark, "NoToken")>>)))

\* the result is <<scanner, token>>
scan_directive(s0) ==
    LET start_mark == s0.mark IN
       Let(scan_directive_name(skip(s0)), LAMBDA name :
       IF Failed(name[1]) THEN <<name[1], Token(start_mark, "NoToken")>>
       ELSE
              Let(IF name[2] = <<"Y", "A", "M", "L">>
                  THEN scan_version_directive_value(name[1], start_mark)
                  ELSE IF name[2] = <<"T", "A", "G">>
                  THEN scan_tag_directive_value(name[1], start_mark)
                  ELSE <<skip_to_eol(lookahead(name[1], 1)),
                         TagToken(start_mark, "TagDirective", <<>>, <<>>)>>, LAMBDA r :
            IF Failed(r[1]) THEN r
            ELSE
                 Let(skip_blanks(r[1]), LAMBDA s1 :
                 Let(IF ch(s1) = "#" THEN skip_to_eol(s1) ELSE s1, LAMBDA s2 :
                 IF ~is_breakz(ch(s2))
                 THEN <<Fail(s2, start_mark,
                             "while scanning a directive, did not find expected comment or line break"),
                        r[2]>>
                 ELSE IF is_break(ch(s2)) THEN <<skip_line(lookahead(s2, 2)), r[2]>>
                 ELSE <<s2, r[2]>>))))

fetch_directive(s) ==
    LET s1 == unroll_indent(s, -1)
        s2 == Then(s1, remove_simple_key)
    IN Then(s2, LAMBDA x :
              Let(scan_directive(disallow_simple_key(x)), LAMBDA r :
              Then(r[1], LAMBDA y : push_back(y, r[2]))))

-----------------------------------------------------------------------------
(* Block scalars.  The results of the helper loops are <<scanner, ..>>.     *)

RECURSIVE skip_spaces_below(_, _)
skip_spaces_below(s0, indent) ==
    LET s == lookahead(s0, 1) IN
    IF s0.mark.col < indent /\ ch(s) = SP THEN skip_spaces_below(skip(s), indent)
    ELSE IF s0.mark.col < indent THEN s ELSE s0

\* skip_block_scalar_indent; the result is <<scanner, breaks>>
RECURSIVE skip_block_scalar_indent(_, _, _)
skip_block_scalar_indent(s0, indent, breaks) ==
    Let(lookahead(skip_spaces_below(s0, indent), 1), LAMBDA s :
    IF is_break(ch(s))
    THEN skip_block_scalar_indent(read_break(lookahead(s, 2)), indent, Append(breaks, LF))
    ELSE <<s, breaks>>)

RECURSIVE skip_spaces(_)
skip_spaces(s0) ==
    LET s == lookahead(s0, 1) IN IF ch(s) = SP THEN skip_spaces(skip(s)) ELSE s

\* the loop of skip_block_scalar_first_line_indent; the result is
\* <<scanner, breaks, max_indent>>
RECURSIVE first_line_indent_loop(_, _, _)
first_line_indent_loop(s0, breaks, max_indent) ==
       Let(skip_spaces(s0), LAMBDA s :
       Let(Max(max_indent, s.mark.col), LAMBDA m :
       IF is_break(ch(s))
       THEN first_line_indent_loop(read_break(lookahead(s, 2)), Append(breaks, LF), m)
       ELSE <<s, breaks, m>>))

\* skip_block_scalar_first_line_indent; the result is <<scanner, breaks, indent>>
skip_block_scalar_first_line_indent(s, breaks) ==
       Let(first_line_indent_loop(s, breaks, 0), LAMBDA r :
       Let(Max(r[3], r[1].indent + 1), LAMBDA indent :
       <<r[1], r[2], IF r[1].indent > 0 THEN Max(indent, 1) ELSE indent>>))

\* while !is_breakz(self.ch()) { string.push(self.ch()); .. }
RECURSIVE block_line(_, _)
block_line(s, string) ==
    IF ~is_breakz(ch(s)) THEN block_line(lookahead(skip(s), 1), Append(string, ch(s)))
    ELSE <<s, string>>

\* while self.mark.col == indent && !is_z(self.ch()) { .. } of scan_block_scalar
RECURSIVE block_lines(_, _, _)
block_lines(b, literal, indent) ==
    IF ~(b.s.mark.col = indent /\ ~is_z(ch(b.s))) THEN b
    ELSE
      LET trailing_blank == is_blank(ch(b.s))
          fold == ~literal /\ b.leading_break # <<>> /\ ~b.leading_blank /\ ~trailing_blank
          str1 == IF fold
                  THEN IF b.trailing_breaks = <<>> THEN Append(b.string, SP) ELSE b.string
                  ELSE b.string \o b.leading_break
          str2 == str1 \o b.trailing_breaks IN
         Let(block_line(b.s, str2), LAMBDA r :
         IF is_z(ch(r[1]))
         THEN [b EXCEPT !.s = r[1], !.string = r[2], !.leading_break = <<>>,
                        !.trailing_breaks = <<>>, !.leading_blank = trailing_blank]
         ELSE LET s1 == read_break(lookahead(r[1], 2)) IN
                 Let(skip_block_scalar_indent(s1, indent, <<>>), LAMBDA r2 :
                 block_lines([s |-> r2[1], string |-> r[2], leading_break |-> <<LF>>,
                              trailing_breaks |-> r2[2], leading_blank |-> trailing_blank],
                             literal, indent)))

\* the header of a block scalar: the chomping and indentation indicators; the
\* result is <<scanner, chomping, increment>>
block_scalar_header(s0, start_mark) ==
    LET s == lookahead(s0, 1)
        zero == "while scanning a block scalar, found an indentation indicator equal to 0"
    IN IF ch(s) = "+" \/ ch(s) = "-"
       THEN Let(IF ch(s) = "+" THEN 1 ELSE -1, LAMBDA chomping :
               Let(lookahead(skip(s), 1), LAMBDA s1 :
               IF is_digit(ch(s1))
               THEN IF ch(s1) = "0" THEN <<Fail(s1, start_mark, zero), chomping, 0>>
                    ELSE <<skip(s1), chomping, as_hex(ch(s1))>>
               ELSE <<s1, chomping, 0>>))
       ELSE IF is_digit(ch(s))
       THEN IF ch(s) = "0" THEN <<Fail(s, start_mark, zero), 0, 0>>
            ELSE Let(lookahead(skip(s), 1), LAMBDA s1 :
                    IF ch(s1) = "+" \/ ch(s1) = "-"
                    THEN <<skip(s1), IF ch(s1) = "+" THEN 1 ELSE -1, as_hex(ch(s))>>
                    ELSE <<s1, 0, as_hex(ch(s))>>)
       ELSE <<s, 0, 0>>

\* chomp that keeps the trailing line breaks unless they are stripped
chomp_keeping(string, chomping, leading_break, trailing_breaks) ==
    IF chomping # -1 THEN string \o leading_break \o trailing_breaks ELSE string

\* the tail of a block scalar after chomping
chomp(string, chomping, leading_break, trailing_breaks) ==
    LET s1 == IF chomping # -1 THEN string \o leading_break ELSE string
    IN IF chomping = 1 THEN s1 \o trailing_breaks ELSE s1

scan_block_scalar(s0, literal) ==
    LET start_mark == s0.mark IN
       Let(block_scalar_header(unroll_non_block_indents(skip(s0)), start_mark), LAMBDA h :
       Then(h[1], LAMBDA x :
        Let(skip_ws_to_eol(x, TRUE)[1], LAMBDA s1 :
        IF ~is_breakz(ch(s1))
        THEN Fail(s1, start_mark,
                  "while scanning a block scalar, did not find expected comment or line break")
        ELSE
             Let(lookahead(IF is_break(ch(s1)) THEN skip_line(lookahead(s1, 2)) ELSE s1, 1), LAMBDA s2 :
             IF ch(s2) = TAB
             THEN Fail(s2, start_mark, "a block scalar content cannot start with a tab")
             ELSE
                          Let(IF h[3] > 0
                              THEN IF s2.indent >= 0 THEN s2.indent + h[3] ELSE h[3]
                              ELSE 0, LAMBDA indent0 :
                    Let(IF indent0 = 0
                        THEN skip_block_scalar_first_line_indent(s2, <<>>)
                        ELSE Let(skip_block_scalar_indent(s2, indent0, <<>>), LAMBDA q :
                                <<q[1], q[2], indent0>>), LAMBDA r :
                    Let(lookahead(r[1], 1), LAMBDA s3 :
                    Let(block_lines([s |-> s3, string |-> <<>>, leading_break |-> <<>>,
                                     trailing_breaks |-> r[2], leading_blank |-> FALSE],
                                    literal, r[3]), LAMBDA b :
                  push_back(b.s, ScalarToken(s3.mark, IF literal THEN "Literal" ELSE "Foled",
                                             chomp(b.string, h[2], b.leading_break,
                                                   b.trailing_breaks)))))))))))

fetch_block_scalar(s, literal) == scan_block_scalar(allow_simple_key(save_simple_key(s)), literal)

-----------------------------------------------------------------------------
(* Quoted scalars.  The locals of scan_flow_scalar are the fields of a      *)
(* record: s the scanner, string, leading_break, trailing_breaks,           *)
(* whitespaces, leading_blanks.                                             *)

\* the value of code_length hexadecimal digits at the cursor, or -1 if one of
\* them is no hexadecimal digit.  `value` is a u32 and stays above 0x10FFFF
\* once it is: the model keeps 0x110000 in place of such a value
RECURSIVE hex_value(_, _, _, _)
hex_value(s, i, code_length, value) ==
    IF i = code_length THEN value
    ELSE IF ~is_hex(buffer(s, i)) THEN -1
    ELSE hex_value(s, i + 1, code_length,
                   IF value >= 69632 THEN 1114112 ELSE value * 16 + as_hex(buffer(s, i)))

RECURSIVE skip_n(_, _)
skip_n(s, n) == IF n = 0 THEN s ELSE skip_n(skip(s), n - 1)

\* the code point of a one-character escape, or -1
escape_code(c) ==
    CASE c = "0" -> 0 [] c = "a" -> 7 [] c = "b" -> 8 [] c = "t" -> 9 [] c = TAB -> 9
      [] c = "n" -> 10 [] c = "v" -> 11 [] c = "f" -> 12 [] c = "r" -> 13 [] c = "e" -> 27
      [] c = SP -> 32 [] c = DQUOTE -> 34 [] c = "'" -> 39 [] c = BSLASH -> 92
      [] c = "N" -> 133 [] c = "_" -> 160 [] c = "L" -> 8232 [] c = "P" -> 8233
      [] OTHER -> -1

\* resolve_flow_scalar_escape_sequence; the result is <<scanner, character>>
resolve_flow_scalar_escape_sequence(s, start_mark) ==
    LET c == buffer(s, 1) IN
       Let(CASE c = "x" -> 2 [] c = "u" -> 4 [] c = "U" -> 8 [] OTHER -> 0, LAMBDA code_length :
       IF code_length = 0 /\ escape_code(c) = -1
       THEN <<Fail(s, start_mark, "while parsing a quoted scalar, found unknown escape character"),
              NUL>>
       ELSE IF code_length = 0 THEN <<skip(skip(s)), CharOfCode(escape_code(c))>>
       ELSE Let(lookahead(skip(skip(s)), code_length), LAMBDA s1 :
               Let(hex_value(s1, 0, code_length, 0), LAMBDA value :
               IF value = -1
               THEN <<Fail(s1, start_mark,
                           "while parsing a quoted scalar, did not find expected hexadecimal number"),
                      NUL>>
               ELSE IF from_u32(value) = None
               THEN <<Fail(s1, start_mark,
                           "while parsing a quoted scalar, found invalid Unicode character escape code"),
                      NUL>>
               ELSE <<skip_n(s1, code_length), from_u32(value)[1]>>)))

\* consume_flow_scalar_non_whitespace_chars
RECURSIVE consume_flow_scalar_non_whitespace_chars(_, _, _)
consume_flow_scalar_non_whitespace_chars(p0, single, start_mark) ==
    LET p == [p0 EXCEPT !.s = lookahead(@, 2)]
        s == p.s IN
       Let(ch(s), LAMBDA c :
       IF is_blankz(c) THEN p
       ELSE IF c = "'" /\ single /\ buffer(s, 1) = "'"
       THEN consume_flow_scalar_non_whitespace_chars(
                [p EXCEPT !.string = Append(@, "'"), !.s = skip(skip(s))], single, start_mark)
       ELSE IF c = "'" /\ single THEN p
       ELSE IF c = DQUOTE /\ ~single THEN p
       ELSE IF c = BSLASH /\ ~single /\ is_break(buffer(s, 1))
       THEN [p EXCEPT !.s = skip_line(skip(lookahead(s, 3))), !.leading_blanks = TRUE]
       ELSE IF c = BSLASH /\ ~single
       THEN Let(resolve_flow_scalar_escape_sequence(s, start_mark), LAMBDA r :
               IF Failed(r[1]) THEN [p EXCEPT !.s = r[1]]
               ELSE consume_flow_scalar_non_whitespace_chars(
                        [p EXCEPT !.string = Append(@, r[2]), !.s = r[1]], single, start_mark))
       ELSE consume_flow_scalar_non_whitespace_chars(
                [p EXCEPT !.string = Append(@, c), !.s = skip(s)], single, start_mark))

\* while is_blank(self.ch()) || is_break(self.ch()) { .. } of scan_flow_scalar
RECURSIVE flow_blanks(_)
flow_blanks(p) ==
    LET s == p.s IN
    IF ~(is_blank(ch(s)) \/ is_break(ch(s))) THEN p
    ELSE IF is_blank(ch(s))
    THEN IF p.leading_blanks
         THEN IF ch(s) = TAB /\ s.mark.col < s.indent
              THEN [p EXCEPT !.s = Fail(s, s.mark, "tab cannot be used as indentation")]
              ELSE flow_blanks([p EXCEPT !.s = lookahead(skip(s), 1)])
         ELSE flow_blanks([p EXCEPT !.whitespaces = Append(@, ch(s)),
                                    !.s = lookahead(skip(s), 1)])
    ELSE Let(lookahead(read_break(lookahead(s, 2)), 1), LAMBDA s1 :
            IF p.leading_blanks
            THEN flow_blanks([p EXCEPT !.trailing_breaks = Append(@, LF), !.s = s1])
            ELSE flow_blanks([p EXCEPT !.whitespaces = <<>>, !.leading_break = Append(@, LF),
                                       !.leading_blanks = TRUE, !.s = s1]))

\* the joining of whitespace and the folding of line breaks (scan_flow_scalar)
flow_join(p) ==
    IF p.leading_blanks
    THEN IF p.leading_break = <<>>
         THEN [p EXCEPT !.string = @ \o p.leading_break \o p.trailing_breaks,
                        !.trailing_breaks = <<>>, !.leading_break = <<>>]
         ELSE IF p.trailing_breaks = <<>>
         THEN [p EXCEPT !.string = Append(@, SP), !.leading_break = <<>>]
         ELSE [p EXCEPT !.string = @ \o p.trailing_breaks, !.trailing_breaks = <<>>,
                        !.leading_break = <<>>]
    ELSE [p EXCEPT !.string = @ \o p.whitespaces, !.whitespaces = <<>>]

\* loop { .. } of scan_flow_scalar
RECURSIVE flow_loop(_, _, _)
flow_loop(p0, single, start_mark) ==
    LET p == [p0 EXCEPT !.s = lookahead(@, 4)] IN
    IF at_document_indicator(p.s)
    THEN [p EXCEPT !.s = Fail(@, start_mark,
              "while scanning a quoted scalar, found unexpected document indicator")]
    ELSE IF is_z(ch(p.s))
    THEN [p EXCEPT !.s = Fail(@, start_mark,
              "while scanning a quoted scalar, found unexpected end of stream")]
    ELSE
            Let(consume_flow_scalar_non_whitespace_chars([p EXCEPT !.leading_blanks = FALSE],
                                                         single, start_mark), LAMBDA p1 :
         IF Failed(p1.s) THEN p1
         ELSE IF (ch(p1.s) = "'" /\ single) \/ (ch(p1.s) = DQUOTE /\ ~single) THEN p1
         ELSE Let(flow_blanks(p1), LAMBDA p2 :
                 IF Failed(p2.s) THEN p2 ELSE flow_loop(flow_join(p2), single, start_mark)))

\* scan_flow_scalar; the result is <<scanner, token>>
scan_flow_scalar(s0, single) ==
    LET start_mark == s0.mark IN
         Let(flow_loop([s |-> skip(s0), string |-> <<>>, leading_break |-> <<>>,
                        trailing_breaks |-> <<>>, whitespaces |-> <<>>,
                        leading_blanks |-> FALSE], single, start_mark), LAMBDA p :
           Let(ScalarToken(start_mark, IF single THEN "SingleQuoted" ELSE "DoubleQuoted",
                           p.string), LAMBDA tok :
       IF Failed(p.s) THEN <<p.s, tok>>
       ELSE Let(skip_ws_to_eol(skip(p.s), TRUE)[1], LAMBDA s1 :
               Let(ch(s1), LAMBDA c :
               IF \/ c \in {",", "}", "]"} /\ s1.flow_level > 0
                  \/ is_breakz(c)
                  \/ c = ":" /\ s1.flow_level = 0 /\ start_mark.line = s1.mark.line
                  \/ c = ":" /\ s1.flow_level > 0
               THEN <<s1, tok>>
               ELSE <<Fail(s1, s1.mark, "invalid trailing content after double-quoted scalar"),
                      tok>>))))

fetch_flow_scalar(s, single) ==
    Let(scan_flow_scalar(disallow_simple_key(save_simple_key(s)), single), LAMBDA r :
    Then(r[1], LAMBDA x :
        Then(skip_to_next_token(x), LAMBDA y :
            push_back([y EXCEPT !.adjacent_value_allowed_at = y.mark.index], r[2]))))

-----------------------------------------------------------------------------
(* Fetching tokens. *)

\* the dispatch of fetch_next_token on the character at the cursor
\* the guard of the ':' arm of the match of fetch_next_token
is_value_indicator(s) ==
    /\ buffer(s, 0) = ":"
    /\ \/ is_blankz(buffer(s, 1))
       \/ /\ s.flow_level > 0
          /\ is_flow(buffer(s, 1)) \/ s.mark.index = s.adjacent_value_allowed_at

\* the match of fetch_next_token on the next two characters
fetch_token_at(s) ==
    LET c == buffer(s, 0)
        nc == buffer(s, 1)
    IN IF c = "[" THEN fetch_flow_collection_start(s, "FlowSequenceStart")
       ELSE IF c = "{" THEN fetch_flow_collection_start(s, "FlowMappingStart")
       ELSE IF c = "]" THEN fetch_flow_collection_end(s, "FlowSequenceEnd")
       ELSE IF c = "}" THEN fetch_flow_collection_end(s, "FlowMappingEnd")
       ELSE IF c = "," THEN fetch_flow_entry(s)
       ELSE IF c = "-" /\ is_blankz(nc) THEN fetch_block_entry(s)
       ELSE IF c = "?" /\ is_blankz(nc) THEN fetch_key(s)
       ELSE IF is_value_indicator(s) THEN fetch_value(s)
       ELSE IF c = "*" THEN fetch_anchor(s, TRUE)
       ELSE IF c = "&" THEN fetch_anchor(s, FALSE)
       ELSE IF c = "!" THEN fetch_tag(s)
       ELSE IF c = "|" /\ s.flow_level = 0 THEN fetch_block_scalar(s, TRUE)
       ELSE IF c = ">" /\ s.flow_level = 0 THEN fetch_block_scalar(s, FALSE)
       ELSE IF c = "'" THEN fetch_flow_scalar(s, TRUE)
       ELSE IF c = DQUOTE THEN fetch_flow_scalar(s, FALSE)
       ELSE IF c = "-" /\ ~is_blankz(nc) THEN fetch_plain_scalar(s)
       ELSE IF c \in {":", "?"} /\ ~is_blankz(nc) /\ s.flow_level = 0 THEN fetch_plain_scalar(s)
       ELSE IF c \in {"%", "@", GRAVE} THEN Fail(s, s.mark, "unexpected character")
       ELSE fetch_plain_scalar(s)

\* fetch_next_token from skip_to_next_token to lookahead(4): the scanner at the
\* start of the next token
to_next_token(s) ==
    Then(skip_to_next_token(s), LAMBDA x :
      Then(stale_simple_keys(x), LAMBDA y :
        Then(unroll_indent(y, y.mark.col), LAMBDA z : lookahead(z, 4))))

fetch_next_token(s0) ==
    LET s == lookahead(s0, 1) IN
    IF ~s.stream_start_produced THEN fetch_stream_start(s)
    ELSE
      Then(to_next_token(s), LAMBDA s1 :
        IF is_z(ch(s1)) THEN fetch_stream_end(s1)
        ELSE IF s1.mark.col = 0 /\ ch_is(s1, "%") THEN fetch_directive(s1)
        ELSE IF s1.mark.col = 0 /\ buffer(s1, 0) = "-" /\ buffer(s1, 1) = "-"
                /\ buffer(s1, 2) = "-" /\ is_blankz(buffer(s1, 3))
        THEN fetch_document_indicator(s1, "DocumentStart")
        ELSE IF s1.mark.col = 0 /\ buffer(s1, 0) = "." /\ buffer(s1, 1) = "."
                /\ buffer(s1, 2) = "." /\ is_blankz(buffer(s1, 3))
        THEN Then(fetch_document_indicator(s1, "DocumentEnd"), LAMBDA w :
                    Let(skip_ws_to_eol(w, TRUE)[1], LAMBDA s2 :
                    IF ~is_breakz(ch(s2))
                    THEN Fail(s2, s2.mark, "invalid content after document end marker")
                    ELSE s2))
        ELSE IF s1.mark.col < s1.indent THEN Fail(s1, s1.mark, "invalid indentation")
        ELSE fetch_token_at(s1))

\* more_tokens_needed that fetches only when the queue is empty
more_tokens_needed_for_empty_queue(s) ==
    IF s.tokens = <<>> THEN <<s, TRUE>>
    ELSE Let(stale_simple_keys(s), LAMBDA s1 : <<s1, FALSE>>)

\* one pass of the loop of fetch_more_tokens up to the decision need_more; the
\* result is <<scanner, need_more>>
more_tokens_needed(s) ==
    IF s.tokens = <<>> THEN <<s, TRUE>>
    ELSE Let(stale_simple_keys(s), LAMBDA s1 :
            <<s1, ~Failed(s1) /\ \E i \in 1..Len(s1.simple_keys) :
                       s1.simple_keys[i].possible
                       /\ s1.simple_keys[i].token_number = s1.tokens_parsed>>)

\* the pop that does not record that the token is StreamEnd
pop_token_forgetting_stream_end(s) ==
    [s EXCEPT !.tokens = Tail(@), !.token_available = FALSE, !.tokens_parsed = @ + 1]

\* the end of next_token once fetch_more_tokens has returned Ok: the pop
pop_token(s) ==
    LET tok == Head(s.tokens) IN
    [s EXCEPT !.tokens = Tail(@), !.token_available = FALSE, !.tokens_parsed = @ + 1,
              !.stream_end_produced = @ \/ tok.t = "StreamEnd"]

\* Iterator::next for an Err of next_token: the error is kept
keep_error(s) == [s EXCEPT !.error = s.res, !.res = None]

-----------------------------------------------------------------------------
(* Scanner::next as the parser calls it: the whole call.                    *)

\* fetch_more_tokens: the loop, up to token_available = true
RECURSIVE fetch_more_tokens(_)
fetch_more_tokens(s) ==
    Let(more_tokens_needed(s), LAMBDA r :
    IF Failed(r[1]) THEN r[1]
    ELSE IF r[2] THEN Then(fetch_next_token(r[1]), fetch_more_tokens)
    ELSE [r[1] EXCEPT !.token_available = TRUE])

\* next_token: <<scanner, Ok(token)>>, the scanner Failed for an Err
next_token(s) ==
    IF s.stream_end_produced THEN <<s, None>>
    ELSE Let(IF ~s.token_available THEN fetch_more_tokens(s) ELSE s, LAMBDA s1 :
            IF Failed(s1) THEN <<s1, None>>
            ELSE <<pop_token(s1), Some(Head(s1.tokens))>>)

\* Iterator::next: <<scanner, token or None>>
scanner_next(s) ==
    IF s.error # None THEN <<s, None>>
    ELSE Let(next_token(s), LAMBDA r :
            IF Failed(r[1]) THEN <<keep_error(r[1]), None>> ELSE r)

\* The scanner does not depend on its consumer, so the results of the calls of
\* next() the parser is going to make are a function of the scanner: the
\* results of the successive calls from s, up to the first None.  A call after
\* that None returns None again and leaves the scanner as it is.
RECURSIVE scanner_run(_)
scanner_run(s) ==
        Let(scanner_next(s), LAMBDA r :
        IF r[2] = None THEN <<r>> ELSE <<r>> \o scanner_run(r[1]))

-----------------------------------------------------------------------------
(* The parser: events.                                                      *)

\* enum Event; anchor_id is the usize of Alias, Scalar, SequenceStart and
\* MappingStart, tag the Option<TokenType> of Scalar
Event(e) == [e |-> e, v |-> <<>>, style |-> "", anchor_id |-> 0, tag |-> None]
Alias(id) == [Event("Alias") EXCEPT !.anchor_id = id]
Scalar(v, style, anchor_id, tag) ==
    [Event("Scalar") EXCEPT !.v = v, !.style = style, !.anchor_id = anchor_id, !.tag = tag]
SequenceStart(anchor_id) == [Event("SequenceStart") EXCEPT !.anchor_id = anchor_id]
MappingStart(anchor_id) == [Event("MappingStart") EXCEPT !.anchor_id = anchor_id]

\* an empty scalar whose text is empty
empty_scalar_without_text == Scalar(<<>>, "Plain", 0, None)

\* Event::empty_scalar: a null scalar
empty_scalar == Scalar(<<"~">>, "Plain", 0, None)
empty_scalar_with_anchor(anchor, tag) == Scalar(<<>>, "Plain", anchor, tag)

-----------------------------------------------------------------------------
(* The parser: its state.  scanner is the scanner it owns; pulled and nones *)
(* log what scanner.next() returned to it and recv what the receiver got;   *)
(* res is the Err(..) the function under way returns, result the Ok(..) of  *)
(* a state's function and ev the Ok(..) of parse.                           *)

ParserNew ==
    [ states |-> <<>>,
      state |-> "StreamStart",
      token |-> None,
      anchors |-> <<>>,        \* the map from names to ids, a function
      anchor_id |-> 1 ]

Parser(p, s, pulled, n, recv) ==
    [ scanner |-> s, pulled |-> pulled, nones |-> n, recv |-> recv,
      states |-> p.states, state |-> p.state, token |-> p.token,
      anchors |-> p.anchors, anchor_id |-> p.anchor_id,
      res |-> None, result |-> None, ev |-> None,
      \* the results of the calls of self.scanner.next() still to be made
      ahead |-> <<>> ]

ParserFields(p) ==
    [ states |-> p.states, state |-> p.state, token |-> p.token,
      anchors |-> p.anchors, anchor_id |-> p.anchor_id ]

\* unwrap() of None, a failed assert_eq! and unreachable!(): the thread panics
Panics ==
    { "PANIC: pop_state on an empty stack", "PANIC: state_machine in state End",
      "PANIC: load expects StreamStart", "PANIC: load_document expects DocumentStart",
      "PANIC: load_document expects DocumentEnd", "PANIC: load_node unreachable event",
      "PANIC: insert_token", "PANIC: unroll_indent pops an empty stack",
      "PANIC: save_simple_key unwraps no indent" }

PFailed(p) == p.res # None
PFail(p, mark, info) == [p EXCEPT !.res = Some(ScanError(mark, info))]
PThen(p, F(_)) == IF PFailed(p) THEN p ELSE F(p)
Ok(p, ev, mark) == [p EXCEPT !.result = Some([ev |-> ev, mark |-> mark])]

\* self.token = self.scanner.next(): the result of the call is the head of ahead
peek(p) ==
    IF p.token # None THEN p
    ELSE Let(Head(p.ahead), LAMBDA r :
               Let([p EXCEPT !.scanner = r[1], !.token = r[2],
                             !.ahead = IF Len(@) > 1 THEN Tail(@) ELSE @,
                             !.pulled = IF r[2] = None THEN @ ELSE Append(@, r[2][1]),
                             !.nones = IF r[2] = None THEN Min(@ + 1, MaxNones) ELSE @], LAMBDA p1 :
            IF r[2] # None THEN p1
            ELSE IF r[1].error = None
                 THEN PFail(p1, r[1].mark, "unexpected eof")
                 ELSE [p1 EXCEPT !.res = r[1].error]))

\* the token peek returned
tok_of(p) == p.token[1]

parser_skip(p) == [p EXCEPT !.token = None]

\* pop_state that leaves the popped state on the stack
pop_state_keeping(p) ==
    IF p.states = <<>> THEN PFail(p, p.scanner.mark, "PANIC: pop_state on an empty stack")
    ELSE [p EXCEPT !.state = Last(p.states)]

pop_state(p) ==
    IF p.states = <<>> THEN PFail(p, p.scanner.mark, "PANIC: pop_state on an empty stack")
    ELSE [p EXCEPT !.state = Last(p.states), !.states = Front(p.states)]

push_state(p, state) == [p EXCEPT !.states = Append(@, state)]

\* register_anchor that gives a registered name its id again
register_anchor_reusing(p, name) ==
    IF name \in DOMAIN p.anchors THEN p
    ELSE [p EXCEPT !.anchor_id = @ + 1,
                   !.anchors = [n \in DOMAIN p.anchors \cup {name} |->
                                   IF n = name THEN p.anchor_id ELSE p.anchors[n]]]

register_anchor(p, name) ==
    [p EXCEPT !.anchor_id = @ + 1,
              !.anchors = [n \in DOMAIN p.anchors \cup {name} |->
                              IF n = name THEN p.anchor_id ELSE p.anchors[n]]]

-----------------------------------------------------------------------------
(* The parser: the stream and the documents.                                *)

stream_start(p) ==
    PThen(peek(p), LAMBDA q :
      LET tok == tok_of(q) IN
      IF tok.t = "StreamStart"
      THEN Ok(parser_skip([q EXCEPT !.state = "ImplicitDocumentStart"]),
              Event("StreamStart"), tok.mark)
      ELSE PFail(q, tok.mark, "did not find expected <stream-start>"))

RECURSIVE parser_process_directives(_)
parser_process_directives(p) ==
    PThen(peek(p), LAMBDA q :
      IF tok_of(q).t \in {"VersionDirective", "TagDirective"}
      THEN parser_process_directives(parser_skip(q))
      ELSE q)

\* _explict_document_start that starts a document at any token
explict_document_start_at_any_token(p) ==
    PThen(parser_process_directives(p), LAMBDA q :
      PThen(peek(q), LAMBDA r :
        LET tok == tok_of(r) IN
        IF tok.t # "DocumentStart"
        THEN Ok([push_state(r, "DocumentEnd") EXCEPT !.state = "BlockNode"],
                Event("DocumentStart"), tok.mark)
        ELSE Ok(parser_skip([push_state(r, "DocumentEnd") EXCEPT !.state = "DocumentContent"]),
                Event("DocumentStart"), tok.mark)))

explict_document_start(p) ==
    PThen(parser_process_directives(p), LAMBDA q :
      PThen(peek(q), LAMBDA r :
        LET tok == tok_of(r) IN
        IF tok.t # "DocumentStart"
        THEN PFail(r, tok.mark, "did not find expected <document start>")
        ELSE Ok(parser_skip([push_state(r, "DocumentEnd") EXCEPT !.state = "DocumentContent"]),
                Event("DocumentStart"), tok.mark)))

\* while let TokenType::DocumentEnd = tok.1 { self.skip(); tok = try!(self.peek()); }
RECURSIVE skip_document_ends(_)
skip_document_ends(p) ==
    IF tok_of(p).t = "DocumentEnd"
    THEN PThen(peek(parser_skip(p)), skip_document_ends)
    ELSE p

document_start(p, implicit) ==
    PThen(peek(p), LAMBDA q :
      PThen(IF implicit THEN q ELSE skip_document_ends(q), LAMBDA r :
        LET tok == tok_of(r) IN
        IF tok.t = "StreamEnd"
        THEN Ok(parser_skip([r EXCEPT !.state = "End"]), Event("StreamEnd"), tok.mark)
        ELSE IF tok.t \in {"VersionDirective", "TagDirective", "DocumentStart"}
        THEN explict_document_start(r)
        ELSE IF implicit
        THEN PThen(parser_process_directives(r), LAMBDA x :
               Ok([push_state(x, "DocumentEnd") EXCEPT !.state = "BlockNode"],
                  Event("DocumentStart"), tok.mark))
        ELSE explict_document_start(r)))

document_end(p) ==
    PThen(peek(p), LAMBDA q :
      LET tok == tok_of(q)
          q1 == IF tok.t = "DocumentEnd" THEN parser_skip(q) ELSE q
      IN Ok([q1 EXCEPT !.state = "DocumentStart"], Event("DocumentEnd"), tok.mark))

-----------------------------------------------------------------------------
(* The parser: nodes.                                                       *)

\* the Some(tok.1) of a Tag token: its handle and its suffix
TagOf(tok) == Some(<<tok.h, tok.v>>)

\* the first match of parse_node for an Anchor or a Tag token:
\* <<parser, anchor_id, tag>>, the parser having peeked the token after them
node_properties(q) ==
    LET tok == tok_of(q) IN
    IF tok.t = "Anchor"
    THEN Let(peek(parser_skip(register_anchor(q, tok.v))), LAMBDA q1 :
         IF PFailed(q1) THEN <<q1, q.anchor_id, None>>
         ELSE IF tok_of(q1).t = "Tag"
         THEN <<peek(parser_skip(q1)), q.anchor_id, TagOf(tok_of(q1))>>
         ELSE <<q1, q.anchor_id, None>>)
    ELSE IF tok.t = "Tag"
    THEN Let(peek(parser_skip(q)), LAMBDA q1 :
         IF PFailed(q1) THEN <<q1, 0, TagOf(tok)>>
         ELSE IF tok_of(q1).t = "Anchor"
         THEN <<peek(parser_skip(register_anchor(q1, tok_of(q1).v))), q1.anchor_id, TagOf(tok)>>
         ELSE <<q1, 0, TagOf(tok)>>)
    ELSE <<q, 0, None>>

\* the second match of parse_node
node_content(p, anchor_id, tag, block, indentless_sequence) ==
    LET tok == tok_of(p) IN
    IF tok.t = "BlockEntry" /\ indentless_sequence
    THEN Ok([p EXCEPT !.state = "IndentlessSequenceEntry"], SequenceStart(anchor_id), tok.mark)
    ELSE IF tok.t = "Scalar"
    THEN PThen(pop_state(p), LAMBDA q :
           Ok(parser_skip(q), Scalar(tok.v, tok.style, anchor_id, tag), tok.mark))
    ELSE IF tok.t = "FlowSequenceStart"
    THEN Ok([p EXCEPT !.state = "FlowSequenceFirstEntry"], SequenceStart(anchor_id), tok.mark)
    ELSE IF tok.t = "FlowMappingStart"
    THEN Ok([p EXCEPT !.state = "FlowMappingFirstKey"], MappingStart(anchor_id), tok.mark)
    ELSE IF tok.t = "BlockSequenceStart" /\ block
    THEN Ok([p EXCEPT !.state = "BlockSequenceFirstEntry"], SequenceStart(anchor_id), tok.mark)
    ELSE IF tok.t = "BlockMappingStart" /\ block
    THEN Ok([p EXCEPT !.state = "BlockMappingFirstKey"], MappingStart(anchor_id), tok.mark)
    ELSE IF tag # None \/ anchor_id > 0
    THEN PThen(pop_state(p), LAMBDA q :
           Ok(q, empty_scalar_with_anchor(anchor_id, tag), tok.mark))
    ELSE PFail(p, tok.mark, "while parsing a node, did not find expected node content")

\* an alias of an unknown name taken for the alias of no anchor
parse_node_unknown_alias_passes(p, block, indentless_sequence) ==
    PThen(peek(p), LAMBDA q :
      LET tok == tok_of(q) IN
      IF tok.t = "Alias"
      THEN PThen(pop_state(q), LAMBDA x :
             LET y == parser_skip(x) IN
             IF tok.v \notin DOMAIN y.anchors
             THEN Ok(y, Alias(0), tok.mark)
             ELSE Ok(y, Alias(y.anchors[tok.v]), tok.mark))
      ELSE Let(node_properties(q), LAMBDA n :
           PThen(n[1], LAMBDA r : node_content(r, n[2], n[3], block, indentless_sequence))))

parse_node(p, block, indentless_sequence) ==
    PThen(peek(p), LAMBDA q :
      LET tok == tok_of(q) IN
      IF tok.t = "Alias"
      THEN PThen(pop_state(q), LAMBDA x :
             LET y == parser_skip(x) IN
             IF tok.v \notin DOMAIN y.anchors
             THEN PFail(y, tok.mark, "while parsing node, found unknown anchor")
             ELSE Ok(y, Alias(y.anchors[tok.v]), tok.mark))
      ELSE Let(node_properties(q), LAMBDA n :
           PThen(n[1], LAMBDA r : node_content(r, n[2], n[3], block, indentless_sequence))))

document_content(p) ==
    PThen(peek(p), LAMBDA q :
      LET tok == tok_of(q) IN
      IF tok.t \in {"VersionDirective", "TagDirective", "DocumentStart", "DocumentEnd",
                    "StreamEnd"}
      THEN PThen(pop_state(q), LAMBDA x : Ok(x, empty_scalar, tok.mark))
      ELSE parse_node(q, TRUE, FALSE))

\* if first { let _ = try!(self.peek()); self.skip(); }
skip_first(p, first) == IF first THEN PThen(peek(p), parser_skip) ELSE p

-----------------------------------------------------------------------------
(* The parser: block collections.                                           *)

block_mapping_key(p, first) ==
    PThen(skip_first(p, first), LAMBDA p1 :
      PThen(peek(p1), LAMBDA q :
        LET tok == tok_of(q) IN
        IF tok.t = "Key"
        THEN PThen(peek(parser_skip(q)), LAMBDA r :
               LET tok2 == tok_of(r) IN
               IF tok2.t \in {"Key", "Value", "BlockEnd"}
               THEN Ok([r EXCEPT !.state = "BlockMappingValue"], empty_scalar, tok2.mark)
               ELSE parse_node(push_state(r, "BlockMappingValue"), TRUE, TRUE))
        ELSE IF tok.t = "Value"
        THEN Ok([q EXCEPT !.state = "BlockMappingValue"], empty_scalar, tok.mark)
        ELSE IF tok.t = "BlockEnd"
        THEN PThen(pop_state(q), LAMBDA x : Ok(parser_skip(x), Event("MappingEnd"), tok.mark))
        ELSE PFail(q, tok.mark, "while parsing a block mapping, did not find expected key")))

\* block_mapping_value that gives no event for an absent value
block_mapping_value_without_empty_scalar(p) ==
    PThen(peek(p), LAMBDA q :
      LET tok == tok_of(q) IN
      IF tok.t = "Value"
      THEN PThen(peek(parser_skip(q)), LAMBDA r :
             LET tok2 == tok_of(r) IN
             IF tok2.t \in {"Key", "Value", "BlockEnd"}
             THEN block_mapping_key([r EXCEPT !.state = "BlockMappingKey"], FALSE)
             ELSE parse_node(push_state(r, "BlockMappingKey"), TRUE, TRUE))
      ELSE block_mapping_key([q EXCEPT !.state = "BlockMappingKey"], FALSE))

block_mapping_value(p) ==
    PThen(peek(p), LAMBDA q :
      LET tok == tok_of(q) IN
      IF tok.t = "Value"
      THEN PThen(peek(parser_skip(q)), LAMBDA r :
             LET tok2 == tok_of(r) IN
             IF tok2.t \in {"Key", "Value", "BlockEnd"}
             THEN Ok([r EXCEPT !.state = "BlockMappingKey"], empty_scalar, tok2.mark)
             ELSE parse_node(push_state(r, "BlockMappingKey"), TRUE, TRUE))
      ELSE Ok([q EXCEPT !.state = "BlockMappingKey"], empty_scalar, tok.mark))

indentless_sequence_entry(p) ==
    PThen(peek(p), LAMBDA q :
      LET tok == tok_of(q) IN
      IF tok.t # "BlockEntry"
      THEN PThen(pop_state(q), LAMBDA x : Ok(x, Event("SequenceEnd"), tok.mark))
      ELSE PThen(peek(parser_skip(q)), LAMBDA r :
             LET tok2 == tok_of(r) IN
             IF tok2.t \in {"BlockEntry", "Key", "Value", "BlockEnd"}
             THEN Ok([r EXCEPT !.state = "IndentlessSequenceEntry"], empty_scalar, tok2.mark)
             ELSE parse_node(push_state(r, "IndentlessSequenceEntry"), TRUE, FALSE)))

block_sequence_entry(p, first) ==
    PThen(skip_first(p, first), LAMBDA p1 :
      PThen(peek(p1), LAMBDA q :
        LET tok == tok_of(q) IN
        IF tok.t = "BlockEnd"
        THEN PThen(pop_state(q), LAMBDA x : Ok(parser_skip(x), Event("SequenceEnd"), tok.mark))
        ELSE IF tok.t = "BlockEntry"
        THEN PThen(peek(parser_skip(q)), LAMBDA r :
               LET tok2 == tok_of(r) IN
               IF tok2.t \in {"BlockEntry", "BlockEnd"}
               THEN Ok([r EXCEPT !.state = "BlockSequenceEntry"], empty_scalar, tok2.mark)
               ELSE parse_node(push_state(r, "BlockSequenceEntry"), TRUE, FALSE))
        ELSE PFail(q, tok.mark,
                   "while parsing a block collection, did not find expected '-' indicator")))

-----------------------------------------------------------------------------
(* The parser: flow collections.                                            *)

\* flow_mapping_key once tok is not FlowMappingEnd and the ',' is behind
flow_mapping_key_entry(p) ==
    LET tok == tok_of(p) IN
    IF tok.t = "Key"
    THEN PThen(peek(parser_skip(p)), LAMBDA r :
           LET tok2 == tok_of(r) IN
           IF tok2.t \in {"Value", "FlowEntry", "FlowMappingEnd"}
           THEN Ok([r EXCEPT !.state = "FlowMappingValue"], empty_scalar, tok2.mark)
           ELSE parse_node(push_state(r, "FlowMappingValue"), FALSE, FALSE))
    ELSE IF tok.t = "Value"
    THEN Ok([p EXCEPT !.state = "FlowMappingValue"], empty_scalar, tok.mark)
    ELSE IF tok.t # "FlowMappingEnd"
    THEN parse_node(push_state(p, "FlowMappingEmptyValue"), FALSE, FALSE)
    ELSE PThen(pop_state(p), LAMBDA x : Ok(parser_skip(x), Event("MappingEnd"), tok.mark))

flow_mapping_key(p, first) ==
    PThen(skip_first(p, first), LAMBDA p1 :
      PThen(peek(p1), LAMBDA q :
        LET tok == tok_of(q) IN
        IF tok.t # "FlowMappingEnd"
        THEN IF ~first
             THEN IF tok.t = "FlowEntry"
                  THEN PThen(peek(parser_skip(q)), flow_mapping_key_entry)
                  ELSE PFail(q, tok.mark,
                         "while parsing a flow mapping, did not find expected ',' or '}'")
             ELSE flow_mapping_key_entry(q)
        ELSE PThen(pop_state(q), LAMBDA x : Ok(parser_skip(x), Event("MappingEnd"), tok.mark))))

flow_mapping_value(p, empty) ==
    PThen(peek(p), LAMBDA q :
      LET tok == tok_of(q) IN
      IF empty THEN Ok([q EXCEPT !.state = "FlowMappingKey"], empty_scalar, tok.mark)
      ELSE IF tok.t = "Value"
      THEN PThen(peek(parser_skip(q)), LAMBDA r :
             IF tok_of(r).t \in {"FlowEntry", "FlowMappingEnd"}
             THEN Ok([r EXCEPT !.state = "FlowMappingKey"], empty_scalar, tok.mark)
             ELSE parse_node(push_state(r, "FlowMappingKey"), FALSE, FALSE))
      ELSE Ok([q EXCEPT !.state = "FlowMappingKey"], empty_scalar, tok.mark))

\* the second match of flow_sequence_entry, StreamEnd ending the sequence as ']' does
flow_sequence_entry_node_closed_by_stream_end(p) ==
    LET tok == tok_of(p) IN
    IF tok.t = "FlowSequenceEnd"
    THEN PThen(pop_state(p), LAMBDA x : Ok(parser_skip(x), Event("SequenceEnd"), tok.mark))
    ELSE IF tok.t = "StreamEnd"
    THEN PThen(pop_state(p), LAMBDA x : Ok(x, Event("SequenceEnd"), tok.mark))
    ELSE IF tok.t = "Key"
    THEN Ok(parser_skip([p EXCEPT !.state = "FlowSequenceEntryMappingKey"]),
            MappingStart(0), tok.mark)
    ELSE parse_node(push_state(p, "FlowSequenceEntry"), FALSE, FALSE)

\* the second match of flow_sequence_entry
flow_sequence_entry_node(p) ==
    LET tok == tok_of(p) IN
    IF tok.t = "FlowSequenceEnd"
    THEN PThen(pop_state(p), LAMBDA x : Ok(parser_skip(x), Event("SequenceEnd"), tok.mark))
    ELSE IF tok.t = "Key"
    THEN Ok(parser_skip([p EXCEPT !.state = "FlowSequenceEntryMappingKey"]),
            MappingStart(0), tok.mark)
    ELSE parse_node(push_state(p, "FlowSequenceEntry"), FALSE, FALSE)

flow_sequence_entry(p, first) ==
    PThen(skip_first(p, first), LAMBDA p1 :
      PThen(peek(p1), LAMBDA q :
        LET tok == tok_of(q) IN
        IF tok.t = "FlowSequenceEnd"
        THEN PThen(pop_state(q), LAMBDA x : Ok(parser_skip(x), Event("SequenceEnd"), tok.mark))
        ELSE IF tok.t = "FlowEntry" /\ ~first
        THEN PThen(peek(parser_skip(q)), flow_sequence_entry_node)
        ELSE IF ~first
        THEN PFail(q, tok.mark, "while parsing a flow sequence, expectd ',' or ']'")
        ELSE flow_sequence_entry_node(q)))

flow_sequence_entry_mapping_key(p) ==
    PThen(peek(p), LAMBDA q :
      LET tok == tok_of(q) IN
      IF tok.t \in {"Value", "FlowEntry", "FlowSequenceEnd"}
      THEN Ok([parser_skip(q) EXCEPT !.state = "FlowSequenceEntryMappingValue"],
              empty_scalar, tok.mark)
      ELSE parse_node(push_state(q, "FlowSequenceEntryMappingValue"), FALSE, FALSE))

flow_sequence_entry_mapping_value(p) ==
    PThen(peek(p), LAMBDA q :
      LET tok == tok_of(q) IN
      IF tok.t = "Value"
      THEN PThen(peek(parser_skip(q)), LAMBDA r :
             LET tok2 == tok_of(r)
                 r1 == [r EXCEPT !.state = "FlowSequenceEntryMappingValue"]
             IN IF tok2.t \in {"FlowEntry", "FlowSequenceEnd"}
                THEN Ok([r1 EXCEPT !.state = "FlowSequenceEntryMappingEnd"],
                        empty_scalar, tok2.mark)
                ELSE parse_node(push_state(r1, "FlowSequenceEntryMappingEnd"), FALSE, FALSE))
      ELSE Ok([q EXCEPT !.state = "FlowSequenceEntryMappingEnd"], empty_scalar, tok.mark))

flow_sequence_entry_mapping_end(p) ==
    Ok([p EXCEPT !.state = "FlowSequenceEntry"], Event("MappingEnd"), p.scanner.mark)

-----------------------------------------------------------------------------
(* The parser: parse and load.                                              *)

state_machine(p) ==
    CASE p.state = "StreamStart" -> stream_start(p)
      [] p.state = "ImplicitDocumentStart" -> document_start(p, TRUE)
      [] p.state = "DocumentStart" -> document_start(p, FALSE)
      [] p.state = "DocumentContent" -> document_content(p)
      [] p.state = "DocumentEnd" -> document_end(p)
      [] p.state = "BlockNode" -> parse_node(p, TRUE, FALSE)
      [] p.state = "BlockMappingFirstKey" -> block_mapping_key(p, TRUE)
      [] p.state = "BlockMappingKey" -> block_mapping_key(p, FALSE)
      [] p.state = "BlockMappingValue" -> block_mapping_value(p)
      [] p.state = "BlockSequenceFirstEntry" -> block_sequence_entry(p, TRUE)
      [] p.state = "BlockSequenceEntry" -> block_sequence_entry(p, FALSE)
      [] p.state = "FlowSequenceFirstEntry" -> flow_sequence_entry(p, TRUE)
      [] p.state = "FlowSequenceEntry" -> flow_sequence_entry(p, FALSE)
      [] p.state = "FlowMappingFirstKey" -> flow_mapping_key(p, TRUE)
      [] p.state = "FlowMappingKey" -> flow_mapping_key(p, FALSE)
      [] p.state = "FlowMappingValue" -> flow_mapping_value(p, FALSE)
      [] p.state = "IndentlessSequenceEntry" -> indentless_sequence_entry(p)
      [] p.state = "FlowSequenceEntryMappingKey" -> flow_sequence_entry_mapping_key(p)
      [] p.state = "FlowSequenceEntryMappingValue" -> flow_sequence_entry_mapping_value(p)
      [] p.state = "FlowSequenceEntryMappingEnd" -> flow_sequence_entry_mapping_end(p)
      [] p.state = "FlowMappingEmptyValue" -> flow_mapping_value(p, TRUE)
      [] p.state = "End" -> PFail(p, p.scanner.mark, "PANIC: state_machine in state End")

\* recv.on_event(&ev, mark)
on_event(p, ev, mark) == [p EXCEPT !.recv = Append(@, [ev |-> ev, mark |-> mark])]

parse(p) ==
    IF p.state = "End" THEN [p EXCEPT !.ev = Some(Event("StreamEnd"))]
    ELSE PThen(state_machine([p EXCEPT !.ahead = scanner_run(p.scanner)]), LAMBDA q :
           [on_event(q, q.result[1].ev, q.result[1].mark) EXCEPT !.ev = Some(q.result[1].ev)])

\* load_node: <<parser, stack>>, the frames of the collection pushed on the stack
load_node(p, stack, first_ev) ==
    IF first_ev.e \in {"Alias", "Scalar"} THEN <<p, stack>>
    ELSE IF first_ev.e = "SequenceStart" THEN <<p, <<"load_sequence">> \o stack>>
    ELSE IF first_ev.e = "MappingStart" THEN <<p, <<"load_mapping:key">> \o stack>>
    ELSE <<PFail(p, p.scanner.mark, "PANIC: load_node unreachable event"), stack>>

\* Parser::load is under way at the parse() call its stack of frames names, the
\* innermost first: "load" (the loop of load), "load_document:node" and
\* "load_document:end" (the two calls of load_document), "load_sequence",
\* "load_mapping:key" and "load_mapping:value"
LoadNew == [stack |-> <<>>, multi |-> FALSE, ret |-> "idle", err |-> None]

\* how load ends on an Err or a panic
Outcome(p) == IF p.res[1].info \in Panics THEN "Panic" ELSE "Err"

-----------------------------------------------------------------------------
(* Yaml values and the conversions of scalars (yaml.rs).  A value is a      *)
(* tuple of its variant and its payload; the payload of a Hash is the map,  *)
(* a function from keys to values.                                          *)

YNull == <<"Null">>
YBadValue == <<"BadValue">>
YBoolean(b) == <<"Boolean", b>>
YInteger(i) == <<"Integer", i>>
YReal(v) == <<"Real", v>>
YString(v) == <<"String", v>>
YArray(a) == <<"Array", a>>
YHash(h) == <<"Hash", h>>

\* s[from..], 0-based as in Rust
StrFrom(s, from) == SubSeq(s, from + 1, Len(s))
starts_with(s, prefix) == Len(s) >= Len(prefix) /\ SubSeq(s, 1, Len(prefix)) = prefix

\* char::to_digit(radix): the value of the digit, -1 when c is no digit of the radix
to_digit(c, radix) == IF is_hex(c) /\ as_hex(c) < radix THEN as_hex(c) ELSE -1

\* the digits of i64::MAX and of -i64::MIN in the radixes the loader uses
I64Max(radix) ==
    CASE radix = 10 -> <<9,2,2,3,3,7,2,0,3,6,8,5,4,7,7,5,8,0,7>>
      [] radix = 16 -> <<7,15,15,15,15,15,15,15,15,15,15,15,15,15,15,15>>
      [] radix = 8 -> <<7,7,7,7,7,7,7,7,7,7,7,7,7,7,7,7,7,7,7,7,7>>
I64MinMagnitude(radix) ==
    CASE radix = 10 -> <<9,2,2,3,3,7,2,0,3,6,8,5,4,7,7,5,8,0,8>>
      [] radix = 16 -> <<8,0,0,0,0,0,0,0,0,0,0,0,0,0,0,0>>
      [] radix = 8 -> <<1,0,0,0,0,0,0,0,0,0,0,0,0,0,0,0,0,0,0,0,0,0>>

\* whether the number of digits ds, most significant first, is above that of limit
Exceeds(ds, limit) ==
    LET lead == FirstOf({i \in 1..Len(ds) : ds[i] # 0}, Len(ds))
        sig == SubSeq(ds, lead, Len(ds))
    IN \/ Len(sig) > Len(limit)
       \/ /\ Len(sig) = Len(limit)
          /\ \E i \in 1..Len(sig) :
               sig[i] > limit[i] /\ \A j \in 1..(i - 1) : sig[j] = limit[j]

\* the number of digits ds
RECURSIVE ValueOf(_, _)
ValueOf(ds, radix) ==
    IF ds = <<>> THEN 0 ELSE ValueOf(Front(ds), radix) * radix + Last(ds)

\* i64::from_str_radix: Some(n), or None for Err: the empty string, a sign
\* alone, a character that is no digit of the radix, a number out of the
\* range of i64.  A leading '+' or '-' is taken.
from_str_radix(src, radix) ==
    LET signed == src # <<>> /\ Head(src) \in {"+", "-"}
        body == IF signed THEN Tail(src) ELSE src
        ds == [i \in 1..Len(body) |-> to_digit(body[i], radix)]
        negative == signed /\ Head(src) = "-"
    IN IF body = <<>> \/ \E i \in 1..Len(ds) : ds[i] < 0 THEN None
       ELSE IF Exceeds(ds, IF negative THEN I64MinMagnitude(radix) ELSE I64Max(radix))
       THEN None
       ELSE Some(IF negative THEN 0 - ValueOf(ds, radix) ELSE ValueOf(ds, radix))

\* str::parse::<i64>
parse_i64(v) == from_str_radix(v, 10)

\* str::parse::<bool>
parse_bool(v) ==
    IF v = <<"t", "r", "u", "e">> THEN Some(TRUE)
    ELSE IF v = <<"f", "a", "l", "s", "e">> THEN Some(FALSE)
    ELSE None

LowerCase ==
    <<"a", "b", "c", "d", "e", "f", "g", "h", "i", "j", "k", "l", "m", "n", "o", "p", "q", "r",
      "s", "t", "u", "v", "w", "x", "y", "z">>
UpperCase ==
    <<"A", "B", "C", "D", "E", "F", "G", "H", "I", "J", "K", "L", "M", "N", "O", "P", "Q", "R",
      "S", "T", "U", "V", "W", "X", "Y", "Z">>
to_ascii_lowercase(v) ==
    [i \in 1..Len(v) |->
        IF \E k \in 1..Len(UpperCase) : UpperCase[k] = v[i]
        THEN LowerCase[CHOOSE k \in 1..Len(UpperCase) : UpperCase[k] = v[i]]
        ELSE v[i]]

AllDigits(s) == \A i \in 1..Len(s) : is_digit(s[i])

\* whether str::parse::<f64> is Ok: an optional sign, then inf, infinity or nan
\* in any case, or a decimal number: digits with at most one '.', one digit at
\* least, and an optional exponent e or E with an optional sign and digits
parse_f64_is_ok(v) ==
    LET u == IF v # <<>> /\ Head(v) \in {"+", "-"} THEN Tail(v) ELSE v IN
    \/ to_ascii_lowercase(u) \in {<<"i", "n", "f">>, <<"n", "a", "n">>,
                                  <<"i", "n", "f", "i", "n", "i", "t", "y">>}
    \/ \E i \in 0..Len(u), j \in 0..Len(u) :
         /\ i <= j
         /\ AllDigits(SubSeq(u, 1, i))
         /\ IF j = i THEN i >= 1
            ELSE u[i + 1] = "." /\ AllDigits(SubSeq(u, i + 2, j)) /\ j - 1 >= 1
         /\ \/ j = Len(u)
            \/ /\ u[j + 1] \in {"e", "E"}
               /\ LET x == StrFrom(u, j + 1)
                      e == IF x # <<>> /\ Head(x) \in {"+", "-"} THEN Tail(x) ELSE x
                  IN e # <<>> /\ AllDigits(e)

\* Yaml::from_str: the type of a plain scalar without a tag
from_str(v) ==
    LET hex == IF starts_with(v, <<"0", "x">>) THEN from_str_radix(StrFrom(v, 2), 16) ELSE None
        oct == IF starts_with(v, <<"0", "o">>) THEN from_str_radix(StrFrom(v, 2), 8) ELSE None
        plus == IF starts_with(v, <<"+">>) THEN parse_i64(StrFrom(v, 1)) ELSE None
    IN IF hex # None THEN YInteger(hex[1])
       ELSE IF oct # None THEN YInteger(oct[1])
       ELSE IF plus # None THEN YInteger(plus[1])
       ELSE IF v \in {<<"~">>, <<"n", "u", "l", "l">>} THEN YNull
       ELSE IF v = <<"t", "r", "u", "e">> THEN YBoolean(TRUE)
       ELSE IF v = <<"f", "a", "l", "s", "e">> THEN YBoolean(FALSE)
       ELSE IF parse_i64(v) # None THEN YInteger(parse_i64(v)[1])
       ELSE IF parse_f64_is_ok(v) THEN YReal(v)
       ELSE YString(v)

\* the tag Tag("!!", suffix) of an event
CoreTag(suffix) == Some(<<<<"!", "!">>, suffix>>)

\* Item::create_scalar of Yaml
create_scalar(v, style, tag) ==
    IF style # "Plain" THEN YString(v)
    ELSE IF tag # None
    THEN IF tag[1][1] = <<"!", "!">>
         THEN CASE tag[1][2] = <<"b", "o", "o", "l">> ->
                     IF parse_bool(v) = None THEN YBadValue ELSE YBoolean(parse_bool(v)[1])
                [] tag[1][2] = <<"i", "n", "t">> ->
                     IF parse_i64(v) = None THEN YBadValue ELSE YInteger(parse_i64(v)[1])
                [] tag[1][2] = <<"f", "l", "o", "a", "t">> ->
                     IF parse_f64_is_ok(v) THEN YReal(v) ELSE YBadValue
                [] tag[1][2] = <<"n", "u", "l", "l">> ->
                     IF v \in {<<"~">>, <<"n", "u", "l", "l">>} THEN YNull ELSE YBadValue
                [] OTHER -> YString(v)
         ELSE YString(v)
    ELSE from_str(v)

-----------------------------------------------------------------------------
(* The loader (yaml.rs): GenericYamlLoader, the receiver of load_from_str.  *)
(* A Node is <<"Scalar", item>>, <<"Array", items>>, <<"Hash", map>> or     *)
(* <<"BadValue">>; an entry of doc_stack is <<node, anchor id>>.  panic is  *)
(* set when an unwrap() or an unreachable!() of the loader panics.          *)

NodeBadValue == <<"BadValue">>
NodeScalar(item) == <<"Scalar", item>>
NodeArray == <<"Array", <<>>>>
NodeHash == <<"Hash", <<>>>>

is_badvalue(node) == node = NodeBadValue

into_item(node) ==
    CASE node[1] = "Scalar" -> node[2]
      [] node[1] = "Array" -> YArray(node[2])
      [] node[1] = "Hash" -> YHash(node[2])
      [] OTHER -> YBadValue

LoaderNew ==
    [docs |-> <<>>, doc_stack |-> <<>>, key_stack |-> <<>>, anchor_map |-> <<>>,
     panic |-> FALSE]

\* BTreeMap::insert
MapInsert(m, k, v) == [x \in DOMAIN m \cup {k} |-> IF x = k THEN v ELSE m[x]]

\* insert_new_node keeping no copy of an anchored node
insert_new_node_unrecorded(l, node) ==
    IF l.doc_stack = <<>> THEN [l EXCEPT !.doc_stack = <<node>>]
    ELSE LET parent == Last(l.doc_stack)[1]
             top == Len(l.doc_stack)
             ktop == Len(l.key_stack) IN
         IF parent[1] = "Array"
         THEN [l EXCEPT !.doc_stack[top][1][2] = Append(@, into_item(node[1]))]
         ELSE IF parent[1] = "Hash"
         THEN IF l.key_stack = <<>> THEN [l EXCEPT !.panic = TRUE]
              ELSE IF is_badvalue(Last(l.key_stack))
              THEN [l EXCEPT !.key_stack[ktop] = node[1]]
              ELSE [l EXCEPT !.key_stack[ktop] = NodeBadValue,
                             !.doc_stack[top][1][2] =
                                 MapInsert(@, into_item(Last(l.key_stack)), into_item(node[1]))]
         ELSE [l EXCEPT !.panic = TRUE]

insert_new_node(l, node) ==
    insert_new_node_unrecorded(
        IF node[2] > 0 THEN [l EXCEPT !.anchor_map = MapInsert(@, node[2], node[1])] ELSE l,
        node)

\* MarkedEventReceiver::on_event of the loader
loader_on_event(l, ev) ==
    IF l.panic THEN l
    ELSE CASE ev.e = "DocumentEnd" ->
                IF Len(l.doc_stack) = 0
                THEN [l EXCEPT !.docs = Append(@, into_item(NodeBadValue))]
                ELSE IF Len(l.doc_stack) = 1
                THEN [l EXCEPT !.docs = Append(@, into_item(l.doc_stack[1][1])),
                               !.doc_stack = <<>>]
                ELSE [l EXCEPT !.panic = TRUE]
           [] ev.e = "SequenceStart" ->
                [l EXCEPT !.doc_stack = Append(@, <<NodeArray, ev.anchor_id>>)]
           [] ev.e = "SequenceEnd" ->
                IF l.doc_stack = <<>> THEN [l EXCEPT !.panic = TRUE]
                ELSE insert_new_node([l EXCEPT !.doc_stack = Front(@)], Last(l.doc_stack))
           [] ev.e = "MappingStart" ->
                [l EXCEPT !.doc_stack = Append(@, <<NodeHash, ev.anchor_id>>),
                          !.key_stack = Append(@, NodeBadValue)]
           [] ev.e = "MappingEnd" ->
                IF l.key_stack = <<>> \/ l.doc_stack = <<>> THEN [l EXCEPT !.panic = TRUE]
                ELSE insert_new_node([l EXCEPT !.key_stack = Front(@), !.doc_stack = Front(@)],
                                     Last(l.doc_stack))
           [] ev.e = "Scalar" ->
                insert_new_node(l, <<NodeScalar(create_scalar(ev.v, ev.style, ev.tag)),
                                     ev.anchor_id>>)
           [] ev.e = "Alias" ->
                insert_new_node(l, <<IF ev.anchor_id \in DOMAIN l.anchor_map
                                     THEN l.anchor_map[ev.anchor_id]
                                     ELSE NodeBadValue, 0>>)
           [] OTHER -> l

\* the loader after the events evs, in their order
RECURSIVE loader_on_events(_, _)
loader_on_events(l, evs) ==
    IF evs = <<>> THEN l
    ELSE loader_on_events(loader_on_event(l, Head(evs).ev), Tail(evs))

-----------------------------------------------------------------------------
(* The inputs.                                                              *)

\* the concatenations of at most n sequences of P
RECURSIVE Concats(_, _)
Concats(P, n) ==
    IF n = 0 THEN {<<>>}
    ELSE LET prev == Concats(P, n - 1) IN prev \cup {x \o p : x \in prev, p \in P}

\* the pieces of the inputs of the scanner
PiecesScan ==
    {<<"a">>, <<":">>, <<SP>>, <<LF>>, <<"-">>, <<"[">>, <<"]">>, <<"{">>, <<",">>, <<"?">>}

\* the pieces of the inputs of the parser
PiecesParse ==
    {<<"a">>, <<":", SP>>, <<LF>>, <<"-", SP>>, <<"[">>, <<"]">>, <<"{">>, <<"}">>, <<",">>,
     <<"?", SP>>, <<"&", "a", SP>>, <<"*", "a">>, <<"!", "t", SP>>,
     <<LF, "-", "-", "-", SP>>}

-----------------------------------------------------------------------------
(* Scanner::next, one action for each way through it.  The loop of          *)
(* fetch_more_tokens is one step for each pass.                             *)

\* if self.error.is_some() { return None; }, and next_token's
\* if self.stream_end_produced { return Ok(None); }
next_is_over_error_forgotten(s) == s.stream_end_produced

next_is_over(s) == s.error # None \/ s.stream_end_produced

\* next() returns None without touching the scanner
NextNone ==
    /\ next_is_over(sc)
    /\ nones' = Min(nones + 1, MaxNones)
    /\ UNCHANGED <<input, sc, out, ps, events, ld, loader>>

\* a pass of the loop of fetch_more_tokens that fetches a token; when the pass
\* fails, next() keeps the error and returns None
NextFetch ==
    /\ ~next_is_over(sc)
    /\ LET r == more_tokens_needed(sc)
           s1 == IF Failed(r[1]) THEN r[1] ELSE fetch_next_token(r[1])
       IN /\ Failed(r[1]) \/ r[2]
          /\ sc' = IF Failed(s1) THEN keep_error(s1) ELSE s1
          /\ nones' = IF Failed(s1) THEN Min(nones + 1, MaxNones) ELSE nones
    /\ UNCHANGED <<input, out, ps, events, ld, loader>>

\* the last pass of the loop, and the return of the token at the head of the queue
NextToken ==
    /\ ~next_is_over(sc)
    /\ LET r == more_tokens_needed(sc)
       IN /\ ~Failed(r[1]) /\ ~r[2]
          /\ sc' = pop_token([r[1] EXCEPT !.token_available = TRUE])
          /\ out' = Append(out, Head(r[1].tokens))
    /\ UNCHANGED <<input, nones, ps, events, ld, loader>>

Init ==
    /\ input \in Concats(PiecesScan, MaxPieces)
    /\ sc = ScannerNew
    /\ out = <<>>
    /\ nones = 0
    /\ ps = ParserNew
    /\ events = <<>>
    /\ ld = LoadNew
    /\ loader = LoaderNew

Next == NextNone \/ NextFetch \/ NextToken

Spec == Init /\ [][Next]_vars

-----------------------------------------------------------------------------
(* The token stream of the scanner.                                         *)

BlockStarts == {"BlockSequenceStart", "BlockMappingStart"}

\* the end token that closes a start token
Closer(t) ==
    IF t \in BlockStarts THEN "BlockEnd"
    ELSE IF t = "FlowSequenceStart" THEN "FlowSequenceEnd"
    ELSE "FlowMappingEnd"

\* toks is properly nested once the ends in open, the innermost first, are met
RECURSIVE Nested(_, _)
Nested(toks, open) ==
    IF toks = <<>> THEN open = <<>>
    ELSE LET t == Head(toks).t IN
         IF t \in BlockStarts \cup {"FlowSequenceStart", "FlowMappingStart"}
         THEN Nested(Tail(toks), <<Closer(t)>> \o open)
         ELSE IF t \in {"BlockEnd", "FlowSequenceEnd", "FlowMappingEnd"}
         THEN open # <<>> /\ Head(open) = t /\ Nested(Tail(toks), Tail(open))
         ELSE Nested(Tail(toks), open)

\* C1: the tokens the scanner has returned up to and including StreamEnd are a
\* properly nested word of the block and flow start tokens and their end tokens:
\* every start is closed by its matching end, and no end comes without its start.
BalancedBrackets == (out # <<>> /\ Last(out).t = "StreamEnd") => Nested(out, <<>>)

\* C2: of two consecutive tokens the scanner returns, the second has a marker
\* index at least that of the first, the inserted Key, BlockMappingStart and
\* FlowMappingStart tokens included.
MarkerMonotonicity ==
    \A i \in 1..(Len(out) - 1) : out[i + 1].mark.index >= out[i].mark.index

\* the tokens a simple key can start with
CandidateTokens == {"Scalar", "Alias", "Anchor", "Tag", "FlowSequenceStart", "FlowMappingStart"}

\* the number of block levels on the indentation stack
BlockLevels(s) == Cardinality({i \in 1..Len(s.indents) : s.indents[i].needs_block_end})

\* queue new is queue old with Key put right before the candidate of sk, at most one
\* mapping start right before that Key, and Value at the back
Promoted(old, new, sk, opened) ==
    \E k \in 0..(Len(old) - 1) :
      /\ old[k + 1].mark = sk.mark
      /\ old[k + 1].t \in CandidateTokens
      /\ \E starts \in {<<>>} \cup {<<new[k + 1]>>} :
           /\ \A i \in 1..Len(starts) : starts[i].t \in {"BlockMappingStart", "FlowMappingStart"}
           /\ (\E i \in 1..Len(starts) : starts[i].t = "BlockMappingStart") <=> opened
           /\ Len(new) = Len(old) + Len(starts) + 2
           /\ SubSeq(new, 1, k) = SubSeq(old, 1, k)
           /\ SubSeq(new, k + 1, k + Len(starts)) = starts
           /\ new[k + Len(starts) + 1] = Token(sk.mark, "Key")
           /\ SubSeq(new, k + Len(starts) + 2, Len(new) - 1) = SubSeq(old, k + 1, Len(old))
           /\ new[Len(new)].t = "Value"

\* C3: when a ':' promotes a simple-key candidate, the queue the consumer reads
\* from holds BlockMappingStart (only if a block mapping is opened), then Key,
\* then the candidate right after the Key, and Value behind them; the tokens
\* queued before the candidate stay before it, in their order.
SimpleKeyPromotionOrder ==
    [][ LET r == more_tokens_needed(sc)
            z == to_next_token(lookahead(r[1], 1))
        IN (/\ ~next_is_over(sc) /\ ~Failed(r[1]) /\ r[2]
            /\ sc.stream_start_produced
            /\ ~Failed(z) /\ z.mark.col >= z.indent
            /\ is_value_indicator(z) /\ Last(z.simple_keys).possible
            /\ sc'.error = None /\ sc' # sc)
           => Promoted(z.tokens, sc'.tokens, Last(z.simple_keys),
                       BlockLevels(sc') = BlockLevels(z) + 1) ]_vars

\* a ':' has promoted a candidate that opened a block mapping and had other
\* tokens queued behind it
SimpleKeyPromoted ==
    /\ Len(sc.tokens) >= 5
    /\ sc.tokens[1].t = "BlockMappingStart"
    /\ sc.tokens[2].t = "Key"
    /\ sc.tokens[3].t = "FlowSequenceStart" /\ sc.tokens[3].mark = sc.tokens[2].mark
    /\ Last(sc.tokens).t = "Value"

\* C10: once next() has returned None because scanning failed, a later call
\* returns None again and no token, get_error() gives the same error, and no
\* further character is taken from the source.
ErrorIsSticky ==
    [][ (sc.error # None /\ vars' # vars)
        => /\ out' = out
           /\ nones' = Min(nones + 1, MaxNones)
           /\ sc'.error = sc.error
           /\ RdrTaken(sc') = RdrTaken(sc) ]_vars

\* next() has been called again after the call that failed
CalledAfterError == sc.error # None /\ nones = MaxNones

-----------------------------------------------------------------------------
(* Parser::load, one action for each parse() call of it and what load does  *)
(* with the event, up to its next parse() call or its return.               *)

\* the parser and what it owns, and the variables after a step of load
TheParser == Parser(ps, sc, out, nones, events)

Step(p, l) ==
    /\ ps' = ParserFields(p)
    /\ sc' = p.scanner
    /\ out' = p.pulled
    /\ nones' = p.nones
    /\ events' = p.recv
    /\ loader' = loader_on_events(loader, SubSeq(p.recv, Len(events) + 1, Len(p.recv)))
    /\ ld' = IF PFailed(p)
             THEN [l EXCEPT !.ret = Outcome(p), !.stack = <<>>, !.err = p.res]
             ELSE l
    /\ UNCHANGED input

Return(l) == [l EXCEPT !.ret = "Ok", !.stack = <<>>]

At(label) == ld.ret = "running" /\ Head(ld.stack) = label

\* the call of load, up to its loop
LoadStart(multi) ==
    /\ ld.ret = "idle"
    /\ LET l == [ld EXCEPT !.multi = multi, !.ret = "running", !.stack = <<"load">>]
           started == sc.stream_start_produced IN
          Let(IF ~started THEN parse(TheParser) ELSE TheParser, LAMBDA p :
          IF PFailed(p) THEN Step(p, l)
          ELSE IF ~started /\ p.ev[1].e # "StreamStart"
          THEN Step(PFail(p, p.scanner.mark, "PANIC: load expects StreamStart"), l)
          ELSE IF p.scanner.stream_end_produced
          THEN Step(on_event(p, Event("StreamEnd"), p.scanner.mark), Return(l))
          ELSE Step(p, l))

\* the loop of load without self.anchors.clear()
LoadLoopKeepsAnchors ==
    /\ At("load")
    /\ Let(parse(TheParser), LAMBDA p :
       IF PFailed(p) THEN Step(p, ld)
       ELSE IF p.ev[1].e = "StreamEnd"
       THEN Step(on_event(p, Event("StreamEnd"), p.scanner.mark), Return(ld))
       ELSE IF p.ev[1].e # "DocumentStart"
       THEN Step(PFail(p, p.scanner.mark, "PANIC: load_document expects DocumentStart"), ld)
       ELSE Step(p, [ld EXCEPT !.stack = <<"load_document:node">>]))

\* the loop of load: the event that starts a document, or the end of the stream
LoadLoop ==
    /\ At("load")
    /\ Let(parse(TheParser), LAMBDA p :
       IF PFailed(p) THEN Step(p, ld)
       ELSE IF p.ev[1].e = "StreamEnd"
       THEN Step(on_event(p, Event("StreamEnd"), p.scanner.mark), Return(ld))
       ELSE Let([p EXCEPT !.anchors = <<>>], LAMBDA q :
            IF p.ev[1].e # "DocumentStart"
            THEN Step(PFail(q, q.scanner.mark, "PANIC: load_document expects DocumentStart"), ld)
            ELSE Step(q, [ld EXCEPT !.stack = <<"load_document:node">>])))

\* load_document: the root node
LoadDocumentNode ==
    /\ At("load_document:node")
    /\ Let(parse(TheParser), LAMBDA p :
       IF PFailed(p) THEN Step(p, ld)
       ELSE Let(load_node(p, <<"load_document:end">> \o Tail(ld.stack), p.ev[1]), LAMBDA r :
               Step(r[1], [ld EXCEPT !.stack = r[2]])))

\* load_document: DOCUMENT-END is expected; then load loops or returns
LoadDocumentEnd ==
    /\ At("load_document:end")
    /\ Let(parse(TheParser), LAMBDA p :
       IF PFailed(p) THEN Step(p, ld)
       ELSE IF p.ev[1].e # "DocumentEnd"
       THEN Step(PFail(p, p.scanner.mark, "PANIC: load_document expects DocumentEnd"), ld)
       ELSE IF ~ld.multi THEN Step(p, Return(ld))
       ELSE Step(p, [ld EXCEPT !.stack = <<"load">>]))

\* load_sequence: an entry, or the end of the sequence
LoadSequence ==
    /\ At("load_sequence")
    /\ Let(parse(TheParser), LAMBDA p :
       IF PFailed(p) THEN Step(p, ld)
       ELSE IF p.ev[1].e = "SequenceEnd" THEN Step(p, [ld EXCEPT !.stack = Tail(@)])
       ELSE Let(load_node(p, ld.stack, p.ev[1]), LAMBDA r :
               Step(r[1], [ld EXCEPT !.stack = r[2]])))

\* load_mapping: a key, or the end of the mapping
LoadMappingKey ==
    /\ At("load_mapping:key")
    /\ Let(parse(TheParser), LAMBDA p :
       IF PFailed(p) THEN Step(p, ld)
       ELSE IF p.ev[1].e = "MappingEnd" THEN Step(p, [ld EXCEPT !.stack = Tail(@)])
       ELSE Let(load_node(p, <<"load_mapping:value">> \o Tail(ld.stack), p.ev[1]), LAMBDA r :
               Step(r[1], [ld EXCEPT !.stack = r[2]])))

\* load_mapping: the value of the key
LoadMappingValue ==
    /\ At("load_mapping:value")
    /\ Let(parse(TheParser), LAMBDA p :
       IF PFailed(p) THEN Step(p, ld)
       ELSE Let(load_node(p, <<"load_mapping:key">> \o Tail(ld.stack), p.ev[1]), LAMBDA r :
               Step(r[1], [ld EXCEPT !.stack = r[2]])))

ParserInit ==
    /\ input \in Concats(PiecesParse, MaxParts)
    /\ sc = ScannerNew
    /\ out = <<>>
    /\ nones = 0
    /\ ps = ParserNew
    /\ events = <<>>
    /\ ld = LoadNew
    /\ loader = LoaderNew

ParserNext ==
    \/ \E multi \in BOOLEAN : LoadStart(multi)
    \/ LoadLoop
    \/ LoadDocumentNode
    \/ LoadDocumentEnd
    \/ LoadSequence
    \/ LoadMappingKey
    \/ LoadMappingValue

ParserSpec == ParserInit /\ [][ParserNext]_vars

-----------------------------------------------------------------------------
(* The events of the parser.                                                *)

\* a step of load: the event parse delivered in it, the tokens the parser had
\* before it (the one it had peeked, then those it pulled), and those of them it
\* has skipped
StepEvent == events'[Len(events) + 1].ev
StepSeen ==
    (IF ps.token = None THEN <<>> ELSE <<ps.token[1]>>) \o SubSeq(out', Len(out) + 1, Len(out'))
StepTaken == IF ps'.token = None THEN StepSeen ELSE Front(StepSeen)

NodeEvents == {"Scalar", "Alias", "SequenceStart", "MappingStart"}

MappingStates ==
    {"BlockMappingFirstKey", "BlockMappingKey", "BlockMappingValue",
     "FlowMappingFirstKey", "FlowMappingKey", "FlowMappingValue", "FlowMappingEmptyValue"}

\* C4: in a block or flow mapping the parser emits for a key, and for a value,
\* exactly one node event, and where the node is absent (the step takes no
\* Scalar, Anchor or Tag token) a plain scalar event whose value is empty.
EmptyScalarCompleteness ==
    [][ (ps.state \in MappingStates /\ events' # events)
        => /\ Len(events') = Len(events) + 1 \/ StepEvent.e = "StreamEnd"
           /\ StepEvent.e \in NodeEvents \cup {"MappingEnd"}
           /\ (/\ StepEvent.e = "Scalar"
               /\ \A i \in 1..Len(StepTaken) : StepTaken[i].t \notin {"Scalar", "Anchor", "Tag"})
              => (StepEvent.style = "Plain" /\ StepEvent.v = <<>>) ]_vars

\* C5: an Alias(id) event has id >= 1, and an earlier Scalar, SequenceStart or
\* MappingStart event of the same document (none of the events from it on is a
\* DocumentStart) carries that id as its anchor_id.
AliasRefersToAnchor ==
    \A i \in 1..Len(events) :
      events[i].ev.e = "Alias"
      => /\ events[i].ev.anchor_id >= 1
         /\ \E j \in 1..(i - 1) :
              /\ events[j].ev.e \in {"Scalar", "SequenceStart", "MappingStart"}
              /\ events[j].ev.anchor_id = events[i].ev.anchor_id
              /\ \A k \in j..i : events[k].ev.e # "DocumentStart"

\* the receiver got an Alias event
AliasEmitted == \E i \in 1..Len(events) : events[i].ev.e = "Alias"

\* the parser has skipped the i-th token it pulled
Taken(i) == i < Len(out) \/ ps.token = None

\* an Anchor token of the same document, before the i-th token, has its name
Introduced(i) ==
    \E j \in 1..(i - 1) :
      /\ out[j].t = "Anchor" /\ out[j].v = out[i].v
      /\ \A k \in j..i : out[k].t \notin {"DocumentStart", "DocumentEnd"}

\* C6: once the parser has taken an Alias token whose name no Anchor token
\* introduced earlier in the same document, an earlier document's anchor of that
\* name notwithstanding, load has returned an error.
UnknownAliasFails ==
    \A i \in 1..Len(out) :
      (out[i].t = "Alias" /\ Taken(i) /\ ~Introduced(i)) => ld.ret = "Err"

\* the parser has taken an alias of a name that only an earlier document anchors
AliasOfEarlierDocumentTaken ==
    \E i \in 1..Len(out) :
      /\ out[i].t = "Alias" /\ Taken(i) /\ ~Introduced(i)
      /\ \E j \in 1..(i - 1) : out[j].t = "Anchor" /\ out[j].v = out[i].v

\* evs is a sequence of groups, each from a DocumentStart to the next
\* DocumentEnd; inside tells that a group is open
RECURSIVE Documents(_, _)
Documents(evs, inside) ==
    IF evs = <<>> THEN ~inside
    ELSE LET e == Head(evs).ev.e IN
         IF e = "DocumentStart" THEN ~inside /\ Documents(Tail(evs), TRUE)
         ELSE IF e = "DocumentEnd" THEN inside /\ Documents(Tail(evs), FALSE)
         ELSE inside /\ e \notin {"StreamStart", "StreamEnd"} /\ Documents(Tail(evs), inside)

\* C7: when load(recv, multi = true) succeeds, the receiver has got one
\* StreamStart first, one StreamEnd last, and between them groups of events that
\* each start with DocumentStart and end with DocumentEnd.
EventStreamShape ==
    (ld.ret = "Ok" /\ ld.multi)
    => /\ Len(events) >= 2
       /\ Head(events).ev.e = "StreamStart"
       /\ Last(events).ev.e = "StreamEnd"
       /\ Documents(SubSeq(events, 2, Len(events) - 1), FALSE)

\* C8: for a flow-sequence entry that starts with a Key token, after MappingStart
\* the parser emits the key node (an empty scalar, taking no token, when the
\* entry has no key node), then the value node (the node after the Value token,
\* an empty scalar when there is none), then MappingEnd, and goes on with the
\* sequence; it takes no token of the entry but for the node it belongs to.
FlowSequenceEntryMapping ==
    [][ events' # events
        => /\ (/\ ps.state = "FlowSequenceEntryMappingKey"
               /\ Head(StepSeen).t \in {"Value", "FlowEntry", "FlowSequenceEnd"})
              => (StepEvent = empty_scalar /\ StepTaken = <<>>)
           /\ (ps.state = "FlowSequenceEntryMappingValue" /\ Head(StepSeen).t = "Value")
              => /\ StepEvent.e \in NodeEvents
                 /\ StepTaken # <<>> /\ Head(StepTaken).t = "Value"
                 /\ StepSeen[2].t \in {"FlowEntry", "FlowSequenceEnd"}
                    => (StepEvent = empty_scalar /\ Len(StepTaken) = 1)
           /\ (ps.state = "FlowSequenceEntryMappingValue" /\ Head(StepSeen).t # "Value")
              => (StepEvent = empty_scalar /\ StepTaken = <<>>)
           /\ ps.state = "FlowSequenceEntryMappingEnd"
              => /\ StepEvent.e = "MappingEnd" /\ StepTaken = <<>>
                 /\ ps'.state = "FlowSequenceEntry" ]_vars

\* C9: the event of a node carries the tag of the Tag token the parser took before
\* the node, be the event a Scalar, a SequenceStart or a MappingStart.
TagCarried ==
    [][ events' # events
        => \A i \in 1..Len(StepTaken) :
             StepTaken[i].t = "Tag"
             => StepEvent.tag = Some(<<StepTaken[i].h, StepTaken[i].v>>) ]_vars

-----------------------------------------------------------------------------
(* Deeply nested flow collections: the inputs of test_recursion_depth_check,  *)
(* n openers, followed or not by their n closers.                             *)

Repeat(c, n) == [i \in 1..n |-> c]

DeepInit ==
    /\ input \in { Repeat(b[1], n) \o Repeat(b[2], k * n) :
                     b \in {<<"[", "]">>, <<"{", "}">>},
                     n \in (FlowLevelMax - 1)..MaxDepth, k \in {0, 1} }
    /\ sc = ScannerNew
    /\ out = <<>>
    /\ nones = 0
    /\ ps = ParserNew
    /\ events = <<>>
    /\ ld = LoadNew
    /\ loader = LoaderNew

DeepSpec == DeepInit /\ [][Next]_vars

\* the flow collections opened, and closed, by the characters the scanner has consumed
Opened(s) == Cardinality({i \in 1..s.mark.index : input[i] \in {"[", "{"}})
Closed(s) == Cardinality({i \in 1..s.mark.index : input[i] \in {"]", "}"}})

\* C11: the flow level stays within 0..255 and is the number of flow
\* collections open at the scanner's position, so the counter never wraps; the
\* pass that meets a '[' or a '{' while 255 are open fails with "recursion
\* limit exceeded", and an input nesting more than 255 flow collections never
\* reaches the end of the stream: the consumer of the scanner is given the
\* error.  (Parser::peek hands the error of the scanner to load unchanged.)
FlowLevelNeverWraps ==
    [][ /\ sc'.flow_level \in 0..FlowLevelMax
        /\ sc'.flow_level = Opened(sc') - Closed(sc')
        /\ (/\ sc.error = None /\ sc.flow_level = FlowLevelMax
            /\ CharAt(sc.mark.index) \in {"[", "{"}
            /\ out' = out /\ sc' # sc)
           => /\ sc'.error = Some(ScanError(sc.mark, "recursion limit exceeded"))
              /\ sc'.mark = sc.mark
        /\ sc'.stream_end_produced
           => Cardinality({i \in 1..Len(input) : input[i] \in {"[", "{"}}) <= FlowLevelMax
      ]_vars

\* the scanner has stopped at the 256th opener with the recursion limit error
RecursionLimitExceeded ==
    /\ sc.error = Some(ScanError(sc.mark, "recursion limit exceeded"))
    /\ sc.flow_level = FlowLevelMax
    /\ sc.mark.index = FlowLevelMax
    /\ Len(input) > FlowLevelMax
    /\ nones >= 1

-----------------------------------------------------------------------------
(* Flow collections left open.                                              *)

FlowStarts == {"FlowSequenceStart", "FlowMappingStart"}
FlowEnds == {"FlowSequenceEnd", "FlowMappingEnd"}
DocumentMarkers == {"DocumentStart", "DocumentEnd", "StreamEnd"}

\* how many of toks[a..b] are of a type in T
Count(toks, a, b, T) == Cardinality({j \in a..b : toks[j].t \in T})

\* a flow collection of toks is open still when a document marker or the end
\* of the stream comes
UnclosedFlow(toks) ==
    \E i, k \in 1..Len(toks) :
      /\ i < k
      /\ toks[i].t \in FlowStarts
      /\ toks[k].t \in DocumentMarkers
      /\ \A j \in (i + 1)..(k - 1) :
           Count(toks, i + 1, j, FlowEnds) <= Count(toks, i + 1, j, FlowStarts)

\* C12: when the tokens load has taken from the scanner hold a flow collection
\* that is not closed before the end of the stream or a document marker, load
\* returns an error.
UnclosedFlowFails ==
    (ld.ret \notin {"idle", "running"} /\ UnclosedFlow(out)) => ld.ret = "Err"

\* load has failed at the end of a stream that leaves a flow collection, with
\* an entry in it, open
UnclosedFlowFailed ==
    /\ ld.ret = "Err"
    /\ UnclosedFlow(out)
    /\ Last(out).t = "StreamEnd"
    /\ Len(out) >= 4

-----------------------------------------------------------------------------
(* Required simple keys.  A candidate is required when it starts, inside a  *)
(* flow collection, at the column of the enclosing block: the inputs begin  *)
(* with a block sequence entry that opens a flow sequence and breaks the    *)
(* line after its first entry.                                              *)

FlowInBlock == <<"-", SP, "[", "a", ",", LF>>

PiecesKey == {<<"a">>, <<":">>, <<SP>>, <<LF>>, <<"[">>, <<"]">>, <<",">>}

RequiredKeyInit ==
    /\ input \in { FlowInBlock \o x : x \in Concats(PiecesKey, MaxPieces) }
    /\ sc = ScannerNew
    /\ out = <<>>
    /\ nones = 0
    /\ ps = ParserNew
    /\ events = <<>>
    /\ ld = LoadNew
    /\ loader = LoaderNew

RequiredKeySpec == RequiredKeyInit /\ [][Next]_vars

\* the candidate of slot i of s is required
RequiredCandidate(s, i) == s.simple_keys[i].possible /\ s.simple_keys[i].required

\* C13: a required candidate is a candidate still after a step of the scanner,
\* unless the step has put the Key token at its mark into the queue or has
\* failed; no later candidate takes its slot without an error.
RequiredKeyKeptOrPromoted ==
    [][ \A i \in 1..Len(sc.simple_keys) :
          (RequiredCandidate(sc, i) /\ sc'.error = None)
          => \/ /\ i <= Len(sc'.simple_keys)
                /\ sc'.simple_keys[i] = sc.simple_keys[i]
             \/ \E k \in 1..Len(sc'.tokens) :
                   sc'.tokens[k] = Token(sc.simple_keys[i].mark, "Key") ]_vars

\* a ':' has promoted a required candidate
RequiredKeyPromoted ==
    /\ sc.error = None
    /\ \E k \in 1..Len(sc.tokens) : sc.tokens[k] = Token(Marker(6, 2, 0), "Key")
    /\ sc.flow_level > 0

-----------------------------------------------------------------------------
(* The indentation stack.                                                   *)

\* C14: the saved indents increase strictly from the bottom of the stack to its
\* top, the bottom entry is -1, the current indent is greater than the top
\* entry, the stack is empty exactly when the indent is -1, and unroll_indent
\* never pops an empty stack.
IndentStackIncreasing ==
    /\ \A i, j \in 1..Len(sc.indents) : i < j => sc.indents[i].indent < sc.indents[j].indent
    /\ sc.indents # <<>> => sc.indents[1].indent = -1
    /\ sc.indents # <<>> => sc.indent > Last(sc.indents).indent
    /\ sc.indents = <<>> <=> sc.indent = -1
    /\ sc.error # Some(ScanError(sc.mark, "PANIC: unroll_indent pops an empty stack"))

\* a block level and, above it, the one-column indent of a flow collection
\* are on the stack
IndentStackDeep ==
    /\ Len(sc.indents) >= 2
    /\ sc.indents[1].needs_block_end
    /\ ~Last(sc.indents).needs_block_end
    /\ sc.flow_level > 0

-----------------------------------------------------------------------------
(* Indentation inside flow collections.                                     *)

BlockTokens == {"BlockSequenceStart", "BlockMappingStart", "BlockEnd"}

\* C15: a step of the scanner that starts inside a flow collection changes
\* neither the indent nor the indentation stack, queues no BlockSequenceStart,
\* BlockMappingStart or BlockEnd, and rejects no token because of its column.
FlowFreezesIndentation ==
    [][ sc.flow_level > 0
        => /\ sc'.indent = sc.indent
           /\ sc'.indents = sc.indents
           /\ Count(sc'.tokens, 1, Len(sc'.tokens), BlockTokens)
                <= Count(sc.tokens, 1, Len(sc.tokens), BlockTokens)
           /\ \A m \in {sc.mark, sc'.mark} :
                sc'.error # Some(ScanError(m, "invalid indentation")) ]_vars

\* a plain scalar has been scanned inside a flow collection
ScalarInFlow ==
    /\ sc.flow_level > 0
    /\ sc.tokens # <<>> /\ Last(sc.tokens).t = "Scalar"

-----------------------------------------------------------------------------
(* The length of the token queue.                                           *)

\* a simple key at mark m is within reach from the scanner's position: on the
\* same line and at most 1024 characters back
WithinReach(s, m) == m.line = s.mark.line /\ m.index + SimpleKeyReach >= s.mark.index

\* C16: the scanner puts more tokens behind those it has queued only while
\* the token at the head of the queue is a candidate within the simple-key
\* reach (one line, 1024 characters), so that the queue holds no more than the
\* tokens of that reach and the block starts put before them; the entries of
\* a flow collection do not pile up in it.
QueueGrowsWithinReach ==
    (/\ ~next_is_over(sc) /\ sc.tokens # <<>>
     /\ ~Failed(more_tokens_needed(sc)[1]) /\ more_tokens_needed(sc)[2])
    => WithinReach(sc, Head(sc.tokens).mark)

-----------------------------------------------------------------------------
(* The loader by itself: it is given the events Parser::load delivers for   *)
(* one document, event by event.  ld is the position of load, and the next  *)
(* event is any event the parser can return at that position: the anchor    *)
(* ids of the nodes count up from 1, and an alias has the id of an anchor   *)
(* met before it.                                                           *)

Delivered(ev) == [ev |-> ev, mark |-> ScannerNew.mark]

\* recv.on_event(ev), and load at the frames stack afterwards
Receive(ev, stack, id) ==
    /\ Len(events) < MaxEvents
    /\ events' = Append(events, Delivered(ev))
    /\ loader' = loader_on_event(loader, ev)
    /\ ld' = [ld EXCEPT !.stack = stack]
    /\ ps' = [ps EXCEPT !.anchor_id = id]
    /\ UNCHANGED <<input, sc, out, nones>>

\* the texts of the scalars
ScalarTexts == {<<"a">>}

\* the first events of a node: a scalar, a collection, which has the next
\* anchor id when it is anchored, or an alias
NodeStarts ==
    {Scalar(v, "Plain", 0, None) : v \in ScalarTexts}
    \cup UNION { {SequenceStart(aid), MappingStart(aid)} : aid \in {0, ps.anchor_id} }
    \cup { Alias(id) : id \in 1..(ps.anchor_id - 1) }

\* load_document: the event DocumentStart
ReceiveDocumentStart ==
    /\ At("load") /\ events = <<>>
    /\ Receive(Event("DocumentStart"), <<"load_document:node">>, ps.anchor_id)

\* the first event of a node: of the root, of an entry, of a key or of a value
ReceiveNode ==
    \E ev \in NodeStarts :
      LET after == CASE At("load_document:node") -> <<"load_document:end">>
                     [] At("load_sequence") -> ld.stack
                     [] At("load_mapping:key") -> <<"load_mapping:value">> \o Tail(ld.stack)
                     [] At("load_mapping:value") -> <<"load_mapping:key">> \o Tail(ld.stack)
                     [] OTHER -> <<>>
      IN /\ after # <<>>
         /\ Receive(ev, load_node(TheParser, after, ev)[2],
                    IF ev.e # "Alias" /\ ev.anchor_id > 0 THEN ps.anchor_id + 1
                    ELSE ps.anchor_id)

\* load_sequence: the event SequenceEnd
ReceiveSequenceEnd ==
    At("load_sequence") /\ Receive(Event("SequenceEnd"), Tail(ld.stack), ps.anchor_id)

\* load_mapping: the event MappingEnd in the place of a key
ReceiveMappingEnd ==
    At("load_mapping:key") /\ Receive(Event("MappingEnd"), Tail(ld.stack), ps.anchor_id)

\* load_document: the event DocumentEnd
ReceiveDocumentEnd ==
    At("load_document:end") /\ Receive(Event("DocumentEnd"), <<"load">>, ps.anchor_id)

LoaderInit ==
    /\ input = <<>>
    /\ sc = ScannerNew
    /\ out = <<>>
    /\ nones = 0
    /\ ps = ParserNew
    /\ events = <<>>
    /\ ld = [LoadNew EXCEPT !.multi = TRUE, !.ret = "running", !.stack = <<"load">>]
    /\ loader = LoaderNew

LoaderNext ==
    \/ ReceiveDocumentStart
    \/ ReceiveNode
    \/ ReceiveSequenceEnd
    \/ ReceiveMappingEnd
    \/ ReceiveDocumentEnd

LoaderSpec == LoaderInit /\ [][LoaderNext]_vars

-----------------------------------------------------------------------------
(* Aliases in the loader.                                                   *)

\* the index of the last event of the node that starts at event i of evs
NodeEnd(evs, i) ==
    IF evs[i].ev.e \in {"Scalar", "Alias"} THEN i
    ELSE LET starts(j) == Cardinality({k \in i..j : evs[k].ev.e \in {"SequenceStart", "MappingStart"}})
             ends(j) == Cardinality({k \in i..j : evs[k].ev.e \in {"SequenceEnd", "MappingEnd"}})
         IN FirstOf({j \in i..Len(evs) : starts(j) = ends(j)}, Len(evs))

\* the index of the first event of the node that carries anchor id, 0 when
\* there is none before event k
AnchorSite(evs, k, id) ==
    LET sites == {i \in 1..(k - 1) : evs[i].ev.e # "Alias" /\ evs[i].ev.anchor_id = id}
    IN IF sites = {} \/ id = 0 THEN 0 ELSE CHOOSE i \in sites : TRUE

\* event k is an alias of a node that is complete before it
CompleteAlias(evs, k) ==
    /\ evs[k].ev.e = "Alias"
    /\ AnchorSite(evs, k, evs[k].ev.anchor_id) > 0
    /\ NodeEnd(evs, AnchorSite(evs, k, evs[k].ev.anchor_id)) < k

\* the events without their anchors
Unanchored(evs) ==
    [i \in 1..Len(evs) |-> IF evs[i].ev.e = "Alias" THEN evs[i]
                            ELSE [evs[i] EXCEPT !.ev.anchor_id = 0]]

\* events a..b of evs with every alias of a complete node replaced by the
\* events of that node, written out again at the place of the alias
RECURSIVE WrittenOut(_, _, _)
WrittenOut(evs, a, b) ==
    IF a > b THEN <<>>
    ELSE WrittenOut(evs, a, b - 1) \o
         (IF CompleteAlias(evs, b)
          THEN Let(AnchorSite(evs, b, evs[b].ev.anchor_id), LAMBDA i :
                   Unanchored(WrittenOut(evs, i, NodeEnd(evs, i))))
          ELSE <<evs[b]>>)

\* the values the loader holds: the documents and the nodes under way
Held(l) == [docs |-> l.docs, doc_stack |-> l.doc_stack, key_stack |-> l.key_stack,
            panic |-> l.panic]

\* C17: when every alias delivered so far comes after the end of the node
\* that carries its anchor, the loader holds the values it holds when each
\* alias is replaced by the events of the anchored node, written out in full
\* at the place of the alias: the value at an alias is the complete anchored
\* subtree, and it stays that value whatever is delivered afterwards.
AliasIsCopyOfSubtree ==
    (\A k \in 1..Len(events) : events[k].ev.e = "Alias" => CompleteAlias(events, k))
    => Held(loader) = Held(loader_on_events(LoaderNew, WrittenOut(events, 1, Len(events))))

\* a mapping has been loaded whose key is an anchored sequence with an entry
\* and whose value is the alias of the sequence
AliasOfSequenceLoaded ==
    /\ Len(events) = MaxEvents
    /\ events[3].ev = SequenceStart(1)
    /\ events[6].ev = Alias(1)
    /\ Len(loader.doc_stack) = 1
    /\ into_item(loader.doc_stack[1][1]) = YHash([k \in {YArray(<<YString(<<"a">>)>>)} |-> k])


\* a scalar that create_scalar loads as BadValue
BadScalar == Scalar(<<>>, "Plain", 0, CoreTag(<<"n", "u", "l", "l">>))

\* the events with a bad scalar at the place of every alias of a node that
\* is not complete at the alias
SelfAliasesBad(evs) ==
    [k \in 1..Len(evs) |->
        IF evs[k].ev.e = "Alias" /\ ~CompleteAlias(evs, k)
        THEN [evs[k] EXCEPT !.ev = BadScalar] ELSE evs[k]]

\* C18: an alias inside the node that carries its anchor is delivered, with
\* the id of the anchor, without an error, and the loader then holds what it
\* holds with a BadValue at the place of the alias.
SelfAliasIsBadValue ==
    /\ \A k \in 1..Len(events) :
          events[k].ev.e = "Alias" => AnchorSite(events, k, events[k].ev.anchor_id) > 0
    /\ Held(loader) = Held(loader_on_events(LoaderNew, SelfAliasesBad(events)))

-----------------------------------------------------------------------------
(* The loader given one scalar: the document of a scalar event whose text,  *)
(* style and tag are drawn from bounded sets.                                *)

\* the pieces of the texts: the words of the null and boolean values in their
\* three spellings, the radix prefixes, signs, digits, letters and the dot
TextPieces ==
    {<<"~">>, <<"n", "u", "l", "l">>, <<"N", "u", "l", "l">>, <<"N", "U", "L", "L">>,
     <<"t", "r", "u", "e">>, <<"T", "r", "u", "e">>, <<"T", "R", "U", "E">>,
     <<"f", "a", "l", "s", "e">>, <<"F", "a", "l", "s", "e">>, <<"F", "A", "L", "S", "E">>,
     <<"0", "x">>, <<"0", "o">>, <<"+">>, <<"-">>, <<"0">>, <<"7">>, <<"9">>,
     <<"f">>, <<"e">>, <<".">>, <<".", "i", "n", "f">>, <<".", "n", "a", "n">>}

Texts == Concats(TextPieces, MaxTextParts)

\* the tags of the scalar: none, the core tags and two tags that are not core
ScalarTags ==
    {None, CoreTag(<<"b", "o", "o", "l">>), CoreTag(<<"i", "n", "t">>),
     CoreTag(<<"n", "u", "l", "l">>), CoreTag(<<"f", "l", "o", "a", "t">>),
     CoreTag(<<"s", "t", "r">>), Some(<<<<"!">>, <<"i", "n", "t">>>>)}

ScalarStyles == {"Plain", "SingleQuoted", "DoubleQuoted", "Literal", "Foled"}

\* load_node: the event Scalar as the root of the document
ReceiveScalar ==
    /\ At("load_document:node")
    /\ \E v \in Texts, style \in ScalarStyles, tag \in ScalarTags :
         Receive(Scalar(v, style, 0, tag), <<"load_document:end">>, ps.anchor_id)

ScalarNext == ReceiveDocumentStart \/ ReceiveScalar \/ ReceiveDocumentEnd

ScalarSpec == LoaderInit /\ [][ScalarNext]_vars

\* the scalar event of the document and the value it is loaded as, once the
\* document has ended
ScalarLoaded == Len(events) = 3 /\ events[2].ev.e = "Scalar" /\ Len(loader.docs) = 1
TheScalar == events[2].ev
TheValue == loader.docs[1]

\* C19: a scalar with the tag !!bool, !!int or !!null is loaded as a value of
\* the type of the tag when its text converts to the type, as BadValue when it
\* does not, and never as a String.  The texts that convert are the ones the
\* conversions of the standard library accept: true and false; an optional
\* sign and decimal digits, which are within 64 bits when they are 18 or
\* fewer; ~ and null.
CoreType(tag) ==
    CASE tag = CoreTag(<<"b", "o", "o", "l">>) -> "Boolean"
      [] tag = CoreTag(<<"i", "n", "t">>) -> "Integer"
      [] tag = CoreTag(<<"n", "u", "l", "l">>) -> "Null"
      [] OTHER -> ""

Converts(v, type) ==
    CASE type = "Boolean" -> v \in {<<"t", "r", "u", "e">>, <<"f", "a", "l", "s", "e">>}
      [] type = "Integer" ->
           LET u == IF Len(v) > 0 /\ v[1] \in {"+", "-"} THEN Tail(v) ELSE v
           IN Len(u) \in 1..18 /\ AllDigits(u)
      [] type = "Null" -> v \in {<<"~">>, <<"n", "u", "l", "l">>}
      [] OTHER -> FALSE

TaggedScalarHasTypeOfTag ==
    (ScalarLoaded /\ CoreType(TheScalar.tag) # "") =>
        /\ TheValue[1] # "String"
        /\ TheValue[1] = (IF Converts(TheScalar.v, CoreType(TheScalar.tag))
                          THEN CoreType(TheScalar.tag) ELSE "BadValue")

\* a plain scalar with a core tag is loaded
TaggedPlainScalarLoaded ==
    /\ ScalarLoaded /\ TheScalar.style = "Plain"
    /\ TheScalar.tag = CoreTag(<<"i", "n", "t">>) /\ TheValue = YInteger(7)

\* C20: a plain scalar without a tag whose text is not a float form is loaded
\* with the type of the inference table: Null for ~, null, Null, NULL and the
\* empty text; Boolean for true, True, TRUE, false, False, FALSE; Integer for
\* the texts [+-]?[0-9]+, 0x[0-9A-Fa-f]+ and 0o[0-7]+; String for the others.
\* The float forms are the signed infinities, the not-a-number words and the
\* texts a parser of 64-bit floats accepts.
AllOf(s, Allowed(_)) == Len(s) > 0 /\ \A i \in 1..Len(s) : Allowed(s[i])

IsOctal(c) == c \in {"0", "1", "2", "3", "4", "5", "6", "7"}

IntegerForm(v) ==
    \/ AllOf(IF Len(v) > 0 /\ v[1] \in {"+", "-"} THEN Tail(v) ELSE v, is_digit)
    \/ starts_with(v, <<"0", "x">>) /\ AllOf(StrFrom(v, 2), is_hex)
    \/ starts_with(v, <<"0", "o">>) /\ AllOf(StrFrom(v, 2), IsOctal)

FloatForm(v) ==
    \/ (IF Len(v) > 0 /\ v[1] \in {"+", "-"} THEN Tail(v) ELSE v)
          \in {<<".", "i", "n", "f">>, <<".", "I", "n", "f">>, <<".", "I", "N", "F">>}
    \/ v \in {<<".", "n", "a", "n">>, <<"N", "a", "N">>, <<".", "N", "A", "N">>}
    \/ parse_f64_is_ok(v) /\ ~IntegerForm(v)

TableType(v) ==
    IF v \in {<<"~">>, <<"n", "u", "l", "l">>, <<"N", "u", "l", "l">>, <<"N", "U", "L", "L">>,
              <<>>}
    THEN "Null"
    ELSE IF v \in {<<"t", "r", "u", "e">>, <<"T", "r", "u", "e">>, <<"T", "R", "U", "E">>,
                   <<"f", "a", "l", "s", "e">>, <<"F", "a", "l", "s", "e">>,
                   <<"F", "A", "L", "S", "E">>}
    THEN "Boolean"
    ELSE IF IntegerForm(v) THEN "Integer"
    ELSE "String"

PlainScalarHasTableType ==
    (/\ ScalarLoaded /\ TheScalar.style = "Plain" /\ TheScalar.tag = None
     /\ ~FloatForm(TheScalar.v))
        => TheValue[1] = TableType(TheScalar.v)

\* a plain scalar without a tag is loaded as an integer written in base 16
HexScalarLoaded ==
    /\ ScalarLoaded /\ TheScalar.style = "Plain" /\ TheScalar.tag = None
    /\ TheScalar.v = <<"0", "x", "f">> /\ TheValue = YInteger(15)

-----------------------------------------------------------------------------
(* The scanner on block scalars: a header, a line break and the lines of    *)
(* the scalar.                                                               *)

\* the headers: the style, then a chomping indicator, an indentation
\* indicator, or both in either order
BlockHeaders ==
    { <<st>> \o h : st \in {"|", ">"},
                    h \in {<<>>, <<"-">>, <<"+">>, <<"1">>, <<"-", "1">>, <<"+", "1">>,
                           <<"1", "-">>, <<"1", "+">>} }

\* the pieces of the lines
PiecesBlock == {<<"a">>, <<LF>>, <<SP, "a">>}

BlockScalarInit ==
    /\ input \in { h \o <<LF>> \o b : h \in BlockHeaders, b \in Concats(PiecesBlock, MaxPieces) }
    /\ sc = ScannerNew
    /\ out = <<>>
    /\ nones = 0
    /\ ps = ParserNew
    /\ events = <<>>
    /\ ld = LoadNew
    /\ loader = LoaderNew

BlockScalarSpec == BlockScalarInit /\ [][Next]_vars

\* the header of the input and the lines after it
HeaderOf(in) == SubSeq(in, 1, FirstOf({i \in 1..Len(in) : in[i] = LF}, Len(in)) - 1)
BodyOf(in) == SubSeq(in, Len(HeaderOf(in)) + 2, Len(in))

\* the chomping indicator of a header: "-", "+" or "" for none
ChompingOf(h) == IF \E i \in 1..Len(h) : h[i] = "-" THEN "-"
                 ELSE IF \E i \in 1..Len(h) : h[i] = "+" THEN "+"
                 ELSE ""

\* the number of line breaks a text ends with
TrailingBreaks(s) ==
    LET I == {i \in 1..Len(s) : s[i] # LF}
    IN Len(s) - (IF I = {} THEN 0 ELSE CHOOSE i \in I : \A j \in I : j <= i)

\* the block scalar is the whole of the stream
BlockScalarScanned ==
    /\ Len(out) = 3
    /\ out[2].t = "Scalar" /\ out[2].style \in {"Literal", "Foled"}
    /\ out[3].t = "StreamEnd"

-----------------------------------------------------------------------------
(* The scanner on plain scalars of several lines.                           *)

PiecesPlain == {<<"a">>, <<"b">>, <<SP>>, <<LF>>}

PlainScalarInit ==
    /\ input \in Concats(PiecesPlain, MaxPieces + 2)
    /\ sc = ScannerNew
    /\ out = <<>>
    /\ nones = 0
    /\ ps = ParserNew
    /\ events = <<>>
    /\ ld = LoadNew
    /\ loader = LoaderNew

PlainScalarSpec == PlainScalarInit /\ [][Next]_vars

\* the text in[i..] folded onto acc: the blanks around a line break are
\* dropped, one line break between two content lines gives a space, and n
\* blank lines between two content lines give one newline if single, else n
RECURSIVE FoldLines(_, _, _, _, _, _)
FoldLines(in, i, acc, breaks, blanks, single) ==
    IF i > Len(in) THEN acc
    ELSE IF in[i] = LF THEN FoldLines(in, i + 1, acc, breaks + 1, <<>>, single)
    ELSE IF in[i] = SP
    THEN FoldLines(in, i + 1, acc, breaks,
                   IF breaks > 0 \/ acc = <<>> THEN <<>> ELSE Append(blanks, SP), single)
    ELSE FoldLines(in, i + 1,
                   acc \o (IF acc = <<>> THEN <<>>
                           ELSE IF breaks = 0 THEN blanks
                           ELSE IF breaks = 1 THEN <<SP>>
                           ELSE IF single THEN <<LF>>
                           ELSE Repeat(LF, breaks - 1)) \o <<in[i]>>,
                   0, <<>>, single)

\* the plain scalar is the whole of the stream
PlainScalarScanned ==
    /\ Len(out) = 3
    /\ out[2].t = "Scalar" /\ out[2].style = "Plain"
    /\ out[3].t = "StreamEnd"

\* C22 as stated: in a plain scalar of several lines one line break between
\* two content lines gives one space, and a run of blank lines gives a single
\* newline, whatever their number.
BlankLinesFoldToOneNewline ==
    PlainScalarScanned => out[2].v = FoldLines(input, 1, <<>>, 0, <<>>, TRUE)

\* C22 as amended: one line break between two content lines gives one space,
\* and a run of n blank lines gives n newlines.
BlankLinesFoldToNewlines ==
    PlainScalarScanned => out[2].v = FoldLines(input, 1, <<>>, 0, <<>>, FALSE)

\* a plain scalar with two blank lines between its content lines is scanned
TwoBlankLinesScanned ==
    /\ PlainScalarScanned
    /\ input = <<"a", LF, LF, LF, "b">>
    /\ out[2].v = <<"a", LF, LF, "b">>

-----------------------------------------------------------------------------
(* The scanner on texts with '#'.                                           *)

PiecesComment ==
    {<<"a">>, <<"#">>, <<SP>>, <<LF>>, <<"[">>, <<"]">>, <<DQUOTE, "a", DQUOTE>>}

CommentInit ==
    /\ input \in Concats(PiecesComment, MaxPieces)
    /\ sc = ScannerNew
    /\ out = <<>>
    /\ nones = 0
    /\ ps = ParserNew
    /\ events = <<>>
    /\ ld = LoadNew
    /\ loader = LoaderNew

CommentSpec == CommentInit /\ [][Next]_vars

\* whether a comment starts at in[j]: a '#' at the start of a line or after
\* a space
CommentStart(in, j) == in[j] = "#" /\ (j = 1 \/ in[j - 1] \in {SP, LF})

\* whether in[i] is a '#' that immediately follows a character that is not
\* white space, outside of a comment
AttachedHash(in, i) ==
    /\ in[i] = "#" /\ i > 1 /\ in[i - 1] \notin {SP, LF}
    /\ ~\E j \in 1..(i - 1) : CommentStart(in, j) /\ \A k \in j..i : in[k] # LF

\* the occurrences of '#' in the values of the scalars among the tokens toks
HashesKept(toks) ==
    { <<k, i>> \in (1..Len(toks)) \X (1..Len(input)) :
        toks[k].t = "Scalar" /\ i <= Len(toks[k].v) /\ toks[k].v[i] = "#" }

\* C23: a '#' that immediately follows a character that is not white space
\* never starts a comment: no such '#' that the scanner has gone past without
\* an error has been skipped, each is in the value of a scalar.
AttachedHashIsNoComment ==
    sc.error = None =>
        Cardinality(HashesKept(out \o sc.tokens))
            >= Cardinality({i \in 1..Min(Len(input), sc.mark.index) : AttachedHash(input, i)})

-----------------------------------------------------------------------------
(* The scanner on tags written with %xx escapes.                            *)

\* the escaped octets: 0x41, leading octets of 2, 3 and 4 bytes,
\* continuation octets and 0xFF
PiecesEscape ==
    {<<"%", "4", "1">>, <<"%", "C", "3">>, <<"%", "E", "2">>, <<"%", "F", "0">>,
     <<"%", "A", "9">>, <<"%", "8", "2">>, <<"%", "A", "C">>, <<"%", "F", "F">>}

UriInit ==
    /\ input \in { <<"!">> \o x : x \in Concats(PiecesEscape, MaxPieces) }
    /\ sc = ScannerNew
    /\ out = <<>>
    /\ nones = 0
    /\ ps = ParserNew
    /\ events = <<>>
    /\ ld = LoadNew
    /\ loader = LoaderNew

UriSpec == UriInit /\ [][Next]_vars

\* the octets that the escapes of the input write
OctetsOf(in) ==
    [k \in 1..((Len(in) - 1) \div 3) |-> as_hex(in[3 * k]) * 16 + as_hex(in[3 * k + 1])]

\* the length of the UTF-8 sequence that the octet b leads, 0 when it leads none
Utf8Width(b) ==
    IF b < 128 THEN 1
    ELSE IF b >= 192 /\ b < 224 THEN 2
    ELSE IF b >= 224 /\ b < 240 THEN 3
    ELSE IF b >= 240 /\ b < 248 THEN 4
    ELSE 0

\* the code point that the w octets of bs from i on encode
Utf8CodePoint(bs, i, w) ==
    IF w = 1 THEN bs[i]
    ELSE CASE w = 2 -> (bs[i] % 32) * 64 + (bs[i + 1] % 64)
           [] w = 3 -> ((bs[i] % 16) * 64 + (bs[i + 1] % 64)) * 64 + (bs[i + 2] % 64)
           [] w = 4 -> (((bs[i] % 8) * 64 + (bs[i + 1] % 64)) * 64 + (bs[i + 2] % 64)) * 64
                          + (bs[i + 3] % 64)

\* whether the code point cp has no shorter encoding than w octets and is a
\* Unicode scalar value
Utf8Shortest(cp, w) ==
    /\ cp >= (CASE w = 1 -> 0 [] w = 2 -> 128 [] w = 3 -> 2048 [] w = 4 -> 65536)
    /\ cp <= 1114111 /\ ~(cp >= 55296 /\ cp <= 57343)

\* the decoding of the octets of bs from i on: <<"ok", code points>> for
\* valid UTF-8, <<"err">> when a leading octet or a continuation octet is not
\* one or is missing, <<"other">> for the sequences that have the form of
\* UTF-8 and encode no character
RECURSIVE Utf8Decode(_, _)
Utf8Decode(bs, i) ==
    IF i > Len(bs) THEN <<"ok", <<>>>>
    ELSE LET w == Utf8Width(bs[i]) IN
         IF w = 0 \/ i + w - 1 > Len(bs) THEN <<"err">>
         ELSE IF \E k \in (i + 1)..(i + w - 1) : ~(bs[k] >= 128 /\ bs[k] < 192) THEN <<"err">>
         ELSE IF ~Utf8Shortest(Utf8CodePoint(bs, i, w), w) THEN <<"other">>
         ELSE LET rest == Utf8Decode(bs, i + w) IN
              IF rest[1] = "ok" THEN <<"ok", <<Utf8CodePoint(bs, i, w)>> \o rest[2]>>
              ELSE rest

\* C24: the escapes of a tag whose octets are valid UTF-8 sequences of 1 to 4
\* bytes are decoded to the code points that the sequences encode, and a
\* sequence with a wrong leading or continuation octet is a fatal error.
UriEscapesDecodeUtf8 ==
    (nones >= 1 /\ Len(input) > 1) =>
        LET d == Utf8Decode(OctetsOf(input), 1) IN
        /\ d[1] = "ok" =>
             /\ sc.error = None /\ Len(out) = 3 /\ out[2].t = "Tag"
             /\ out[2].v = [i \in 1..Len(d[2]) |-> CharOfCode(d[2][i])]
        /\ d[1] = "err" => sc.error # None

\* the same for the escapes of one byte and for the wrong sequences
OneByteEscapesDecode ==
    (nones >= 1 /\ \A i \in 1..Len(OctetsOf(input)) : Utf8Width(OctetsOf(input)[i]) < 2)
        => UriEscapesDecodeUtf8

-----------------------------------------------------------------------------
(* The parser and the loader on streams of documents.                       *)

PiecesDocument ==
    {<<"-", "-", "-">>, <<".", ".", ".">>, <<LF>>, <<"a">>, <<"-", SP>>, <<":", SP>>}

DocumentInit ==
    /\ input \in Concats(PiecesDocument, MaxPieces)
    /\ sc = ScannerNew
    /\ out = <<>>
    /\ nones = 0
    /\ ps = ParserNew
    /\ events = <<>>
    /\ ld = LoadNew
    /\ loader = LoaderNew

DocumentSpec == DocumentInit /\ [][ParserNext]_vars

\* the tokens '---' that no node follows before the next document marker or
\* the end of the stream
EmptyStarts(toks) ==
    { i \in 1..(Len(toks) - 1) :
        /\ toks[i].t = "DocumentStart"
        /\ toks[i + 1].t \in {"DocumentStart", "DocumentEnd", "StreamEnd"} }

\* the events DocumentStart among the first j events
DocumentsUpTo(evs, j) == {k \in 1..j : evs[k].ev.e = "DocumentStart"}

\* the events DocumentStart that the token tok gave
StartsOf(evs, tok) ==
    {j \in 1..Len(evs) : evs[j].ev.e = "DocumentStart" /\ evs[j].mark = tok.mark}

\* C25: an explicit document start '---' that no node follows before the next
\* document marker or the end of the stream yields exactly one document, and
\* its root is null.  (load with multi = false stops after the first document.)
EmptyDocumentIsNull ==
    ld.ret = "Ok" =>
        \A i \in EmptyStarts(out) :
            (ld.multi \/ \A k \in 1..(i - 1) : out[k].t = "StreamStart") =>
                /\ Cardinality(StartsOf(events, out[i])) = 1
                /\ \A j \in StartsOf(events, out[i]) :
                     /\ j + 2 <= Len(events)
                     /\ events[j + 1].ev.e = "Scalar"
                     /\ events[j + 2].ev.e = "DocumentEnd"
                     /\ Cardinality(DocumentsUpTo(events, j)) <= Len(loader.docs)
                     /\ loader.docs[Cardinality(DocumentsUpTo(events, j))] = YNull

\* two explicit document starts without a node are loaded as two null documents
TwoEmptyDocumentsLoaded ==
    /\ ld.ret = "Ok" /\ ld.multi
    /\ Cardinality(EmptyStarts(out)) = 2
    /\ loader.docs = <<YNull, YNull>>

-----------------------------------------------------------------------------
(* The ends of the token stream.                                            *)

\* the places of the tokens of type t among toks
Places(toks, t) == {i \in 1..Len(toks) : toks[i].t = t}

\* C26: the first token the scanner returns is StreamStart and it is returned
\* once; a StreamEnd is returned at most once, it is the last token, and after
\* it every call of next() returns None; when the scanner has returned None
\* without an error, exactly one StreamEnd has been returned.
StreamStartsAndEndsOnce ==
    /\ Len(out) >= 1 => Places(out, "StreamStart") = {1}
    /\ Places(out, "StreamEnd") \subseteq {Len(out)}
    /\ Places(out, "StreamEnd") # {} => next_is_over(sc)
    /\ (nones >= 1 /\ sc.error = None) => Places(out, "StreamEnd") = {Len(out)}

\* the scanner has returned StreamStart, tokens, StreamEnd and then None twice
StreamEnded ==
    /\ nones = MaxNones /\ sc.error = None
    /\ Len(out) >= 4 /\ out[1].t = "StreamStart" /\ out[Len(out)].t = "StreamEnd"

-----------------------------------------------------------------------------
(* The scanner called until it returns None.                                *)

PiecesAny ==
    {<<"-", "-", "-">>, <<"a">>, <<":">>, <<SP>>, <<LF>>, <<"[">>, <<"#">>, <<DQUOTE>>,
     <<"|">>, <<"!">>}

AnyInit ==
    /\ input \in Concats(PiecesAny, MaxParts)
    /\ sc = ScannerNew
    /\ out = <<>>
    /\ nones = 0
    /\ ps = ParserNew
    /\ events = <<>>
    /\ ld = LoadNew
    /\ loader = LoaderNew

\* whether a call of next() changes the state: it fetches or returns a
\* token, or returns a None that the model counts
CanStep == nones < MaxNones \/ ~next_is_over(sc)

\* the caller calls next() again and again: the weak fairness of Next,
\* WF_vars(Next), with ENABLED <<Next>>_vars written out as CanStep
RepeatedSpec == AnyInit /\ [][Next]_vars /\ ([]<>(~CanStep) \/ []<><<Next>>_vars)

\* a pass of fetch_more_tokens that fetches without an error consumes a
\* character or queues a token
FetchMakesProgress ==
    ~next_is_over(sc) =>
        Let(more_tokens_needed(sc), LAMBDA r :
        (~Failed(r[1]) /\ r[2]) =>
            Let(fetch_next_token(r[1]), LAMBDA s1 :
            ~Failed(s1) =>
                \/ s1.mark.index > sc.mark.index
                \/ Len(s1.tokens) > Len(sc.tokens)))

\* C27: for every input the calls of next() reach None, StreamEnd having been
\* returned or an error recorded, and every fetch consumes a character or
\* queues a token.
ScannerTerminates ==
    /\ <>(nones >= 1 /\ (sc.stream_end_produced \/ sc.error # None))
    /\ []FetchMakesProgress

\* the scanner has returned None for an input that starts like a document start
NoneReached ==
    /\ nones >= 1
    /\ input = <<"-", "-", "-", "a">>


-----------------------------------------------------------------------------
(* Block entries directly followed by a line break (fetch_block_entry,      *)
(* roll_one_col_indent, and the indentation check of fetch_next_token).     *)

\* the input is c spaces, a "-", a line break, k spaces and then a character
\* of content that is not a "-"
EntryThenBreak(in, c, k) ==
    /\ Len(in) >= c + k + 3
    /\ \A i \in 1..c : in[i] = SP
    /\ in[c + 1] = "-"
    /\ in[c + 2] = LF
    /\ \A i \in (c + 3)..(c + k + 2) : in[i] = SP
    /\ in[c + k + 3] \notin {SP, LF, "-"}

\* C29: when a "-" at column c is directly followed by a line break and the
\* next line starts its content at a column k <= c with something that is not
\* a "-", the scanner ends with an error.
UnindentedEntryContentRejected ==
    \A c \in 0..Len(input) : \A k \in 0..c :
        (nones >= 1 /\ EntryThenBreak(input, c, k)) => sc.error # None


-----------------------------------------------------------------------------
(* Value indicators and block entries on one line (fetch_value,             *)
(* fetch_block_entry, skip_to_next_token).                                  *)

PiecesValue ==
    {<<"a">>, <<":", SP>>, <<"-", SP>>, <<"?", SP>>, <<LF>>, <<",">>, <<"[">>, <<"]">>}

ValueInit ==
    /\ input \in Concats(PiecesValue, MaxPieces)
    /\ sc = ScannerNew
    /\ out = <<>>
    /\ nones = 0
    /\ ps = ParserNew
    /\ events = <<>>
    /\ ld = LoadNew
    /\ loader = LoaderNew

ValueSpec == ValueInit /\ [][Next]_vars

\* the number of flow collections open before the i-th token
FlowDepth(toks, i) ==
    Cardinality({k \in 1..(i - 1) : toks[k].t \in {"FlowSequenceStart", "FlowMappingStart"}})
    - Cardinality({k \in 1..(i - 1) : toks[k].t \in {"FlowSequenceEnd", "FlowMappingEnd"}})

\* the i-th token is a Value of the block context and the j-th a later Value
\* or BlockEntry of the block context on the same line
SecondIndicator(toks, i, j) ==
    /\ i < j
    /\ toks[i].t = "Value"
    /\ toks[j].t \in {"Value", "BlockEntry"}
    /\ toks[i].mark.line = toks[j].mark.line
    /\ FlowDepth(toks, i) = 0
    /\ FlowDepth(toks, j) = 0

\* the tokens a simple key can end with
NodeTokens == {"Scalar", "Alias", "Anchor", "Tag", "FlowSequenceEnd", "FlowMappingEnd"}

\* the i-th token is the Value of a simple key: it follows a node of its line
AfterSimpleKey(toks, i) ==
    /\ i > 1
    /\ toks[i - 1].t \in NodeTokens
    /\ toks[i - 1].mark.line = toks[i].mark.line

\* the input starts with "a: " and goes on, after scalars and spaces only,
\* with a ':' or a '-' that is an indicator
SecondIndicatorAt(in, j) ==
    /\ j >= 4 /\ j <= Len(in)
    /\ in[1] = "a" /\ in[2] = ":" /\ in[3] = SP
    /\ \A i \in 4..(j - 1) : in[i] \in {"a", SP}
    /\ in[j] = ":" \/ (in[j] = "-" /\ in[j - 1] = SP)
    /\ j = Len(in) \/ in[j + 1] \in {SP, LF}

\* C30 as stated: in block context the scanner returns no Value or BlockEntry
\* that follows a Value on the same line.
NoSecondIndicatorOnLine ==
    \A i, j \in 1..Len(out) : ~SecondIndicator(out, i, j)

\* C30: in block context the scanner returns no Value or BlockEntry that
\* follows, on the same line and with no ',' between them, the Value of a
\* simple key; "a: " followed by scalars and a further ':' or '-' indicator
\* ends with an error.
NoSecondIndicatorAfterSimpleKey ==
    /\ \A i, j \in 1..Len(out) :
           (/\ SecondIndicator(out, i, j)
            /\ AfterSimpleKey(out, i))
           => \E k \in (i + 1)..(j - 1) : out[k].t = "FlowEntry"
    /\ \A j \in 1..Len(input) :
           (nones >= 1 /\ SecondIndicatorAt(input, j)) => sc.error # None

\* the scanner has stopped with an error at the second ':' of "a: a: "
SecondValueRejected ==
    /\ nones >= 1
    /\ input = <<"a", ":", SP, "a", ":", SP>>
    /\ sc.error # None
    /\ Len(out) = 6


-----------------------------------------------------------------------------
(* The token numbers of the simple-key candidates (save_simple_key,         *)
(* fetch_more_tokens, insert_token).                                        *)

\* the candidates of s that are still possible
PossibleKeys(s) == {i \in 1..Len(s.simple_keys) : s.simple_keys[i].possible}

\* C31: every possible candidate refers to a token that is still queued or to
\* the token about to be queued: tokens_parsed <= token_number <=
\* tokens_parsed + the length of the queue; and no call has failed in the
\* assertion of insert_token.
CandidateTokenIsQueued ==
    /\ \A i \in PossibleKeys(sc) :
           /\ sc.tokens_parsed <= sc.simple_keys[i].token_number
           /\ sc.simple_keys[i].token_number <= sc.tokens_parsed + Len(sc.tokens)
    /\ sc.error # None => sc.error[1].info # "PANIC: insert_token"

\* tokens have been returned, and the token at the head of the queue is held
\* back for a possible candidate while others are queued behind it
CandidateHeldBack ==
    /\ Len(out) >= 3
    /\ Len(sc.tokens) >= 2
    /\ \E i \in PossibleKeys(sc) : sc.simple_keys[i].token_number = sc.tokens_parsed


-----------------------------------------------------------------------------
(* Stale candidates (stale_simple_keys): short inputs of several lines, and *)
(* lines of tags up to the reach of a simple key that end with a ':'.       *)

PiecesReach ==
    {<<"a">>, <<":">>, <<SP>>, <<LF>>, <<"?">>, <<"[">>, <<"]">>, <<DQUOTE, "a", DQUOTE>>}

\* n copies of the piece p
RepeatPiece(p, n) == [i \in 1..(n * Len(p)) |-> p[((i - 1) % Len(p)) + 1]]

\* a tag and the space after it
SpacedTag == <<"!", "t", SP>>

\* tags up to the reach of a simple key, further spaces and a ':': the ':' is
\* 1023 characters and more after the first tag
LongLines ==
    { RepeatPiece(SpacedTag, SimpleKeyReach \div Len(SpacedTag)) \o Repeat(SP, k) \o <<":">> :
        k \in 0..MaxParts }

ReachInit ==
    /\ input \in Concats(PiecesReach, MaxParts) \cup LongLines
    /\ sc = ScannerNew
    /\ out = <<>>
    /\ nones = 0
    /\ ps = ParserNew
    /\ events = <<>>
    /\ ld = LoadNew
    /\ loader = LoaderNew

ReachSpec == ReachInit /\ [][Next]_vars

\* the candidate c is out of reach from the position m: on an earlier line or
\* more than 1024 characters back
OutOfReach(c, m) == c.mark.line < m.line \/ c.mark.index + SimpleKeyReach < m.index

\* the tokens returned and the tokens queued
AllTokens == out \o sc.tokens

\* the p-th token is the Key put before a candidate of the block context: the
\* candidate's token is the next and has the same mark
SimpleKeyAt(toks, p) ==
    /\ p < Len(toks)
    /\ toks[p].t = "Key"
    /\ toks[p + 1].mark = toks[p].mark
    /\ FlowDepth(toks, p) = 0

\* the Value tokens of the block context after the p-th token
ValuesAfter(toks, p) ==
    {j \in (p + 1)..Len(toks) : toks[j].t = "Value" /\ FlowDepth(toks, j) = 0}

\* the Key of a candidate of the block context has its Value on its line and
\* at most 1024 characters after it
KeyWithinReach ==
    \A p \in 1..Len(AllTokens) :
        SimpleKeyAt(AllTokens, p)
        => /\ ValuesAfter(AllTokens, p) # {}
           /\ LET j == CHOOSE v \in ValuesAfter(AllTokens, p) :
                           \A w \in ValuesAfter(AllTokens, p) : v <= w
              IN /\ AllTokens[j].mark.line = AllTokens[p].mark.line
                 /\ AllTokens[j].mark.index <= AllTokens[p].mark.index + SimpleKeyReach

\* a fetch in block context at a position out of reach of a candidate leaves
\* the candidate demoted or replaced, and puts no Key at its mark
StaleIsDemoted ==
    LET r == more_tokens_needed(sc)
        z == skip_to_next_token(lookahead(r[1], 1))
    IN (/\ ~next_is_over(sc) /\ ~Failed(r[1]) /\ r[2]
        /\ sc.stream_start_produced
        /\ ~Failed(z) /\ z.flow_level = 0
        /\ sc' # sc)
       => \A i \in PossibleKeys(sc) :
              OutOfReach(sc.simple_keys[i], z.mark)
              => /\ \/ ~sc'.simple_keys[i].possible
                    \/ sc'.simple_keys[i].mark # sc.simple_keys[i].mark
                 /\ \A k \in 1..Len(sc'.tokens) :
                        (sc'.tokens[k].t = "Key" /\ sc'.tokens[k].mark = sc.simple_keys[i].mark)
                        => (k <= Len(sc.tokens) /\ sc.tokens[k] = sc'.tokens[k])

\* C32: in block context a fetch at a position on a later line than a
\* candidate's mark, or more than 1024 characters past it, demotes the
\* candidate, and no Key is put before a candidate whose ':' is on a later
\* line or more than 1024 characters after it.
StaleCandidateIsNoKey == []KeyWithinReach /\ [][StaleIsDemoted]_vars

\* the ':' at the end of a line of 1026 characters has been rejected: the
\* first tag of the line, 1025 characters back, is no key
LongLineKeyDemoted ==
    /\ nones >= 1
    /\ Len(input) = SimpleKeyReach + 2
    /\ input[Len(input)] = ":"
    /\ sc.error # None
    /\ \A i \in 1..Len(out) : out[i].t # "Key"


-----------------------------------------------------------------------------
(* The slots of the simple-key stack (fetch_stream_start,                   *)
(* increase_flow_level, decrease_flow_level).                               *)

\* once StreamStart is produced and while no error has occurred, the stack
\* has one slot for each flow level and one for the block context
OneSlotPerLevel ==
    (sc.stream_start_produced /\ sc.error = None)
    => Len(sc.simple_keys) = sc.flow_level + 1

\* a fetch at flow level 0 that queues the token of a ']' or a '}' leaves the
\* flow level at 0 and the number of slots as it is
StrayCloserKeepsSlots ==
    (/\ sc.flow_level = 0 /\ sc.error = None /\ sc'.error = None
     /\ Len(sc'.tokens) > Len(sc.tokens)
     /\ Last(sc'.tokens).t \in FlowEnds)
    => /\ sc'.flow_level = 0
       /\ Len(sc'.simple_keys) = Len(sc.simple_keys)

\* C33: after StreamStart and while no error has occurred the simple-key stack
\* has flow_level + 1 slots, and a ']' or '}' met at flow level 0 leaves the
\* flow level at 0 and removes no slot.
SimpleKeySlots == []OneSlotPerLevel /\ [][StrayCloserKeepsSlots]_vars

\* a ']' has been scanned at flow level 0, after a flow sequence was closed
StrayCloserScanned ==
    /\ input = <<"[", "]", "]">>
    /\ sc.error = None
    /\ sc.flow_level = 0
    /\ Len(out) = 3 /\ sc.tokens # <<>> /\ Last(sc.tokens).t = "FlowSequenceEnd"


-----------------------------------------------------------------------------
(* The indentation at the end of the stream (fetch_stream_end,              *)
(* unroll_indent).                                                          *)

\* StreamEnd is the token queued last
StreamEndQueued == sc.tokens # <<>> /\ Last(sc.tokens).t = "StreamEnd"

\* C34: when StreamEnd is queued at flow level 0 the indent stack is empty,
\* the indent is -1, and as many BlockEnd tokens have been produced as
\* BlockSequenceStart and BlockMappingStart tokens together.
BlocksClosedAtStreamEnd ==
    (StreamEndQueued /\ sc.flow_level = 0)
    => /\ sc.indents = <<>>
       /\ sc.indent = -1
       /\ Count(AllTokens, 1, Len(AllTokens), {"BlockEnd"})
            = Count(AllTokens, 1, Len(AllTokens), BlockStarts)

\* StreamEnd is queued after a block sequence whose '-' was followed by a line
\* break: the one-column indent has been popped without a BlockEnd
BlockSequenceClosed ==
    /\ StreamEndQueued /\ sc.flow_level = 0
    /\ input = <<"-", LF, "a">>
    /\ Count(AllTokens, 1, Len(AllTokens), {"BlockEnd"}) = 1


-----------------------------------------------------------------------------
(* The keys of a block mapping (roll_indent, fetch_value): lines of keys,   *)
(* block entries and scalars at columns 0, 1 and 2.                         *)

PiecesKeyLines ==
    {<<"a", ":">>, <<"-", SP>>, <<SP, "a">>, <<LF>>, <<LF, SP>>, <<LF, SP, SP>>}

KeyLinesInit ==
    /\ input \in Concats(PiecesKeyLines, MaxPieces + 1)
    /\ sc = ScannerNew
    /\ out = <<>>
    /\ nones = 0
    /\ ps = ParserNew
    /\ events = <<>>
    /\ ld = LoadNew
    /\ loader = LoaderNew

KeyLinesSpec == KeyLinesInit /\ [][Next]_vars

\* the number of blocks open before the k-th token
BlockLevel(toks, k) ==
    Count(toks, 1, k - 1, BlockStarts) - Count(toks, 1, k - 1, {"BlockEnd"})

\* the block of the key at p is open still at q
OpenUpTo(toks, p, q) == \A k \in p..q : BlockLevel(toks, k) >= BlockLevel(toks, p)

\* the e-th token starts the block that encloses the k-th token
Encloses(toks, e, k) ==
    /\ e < k
    /\ toks[e].t \in BlockStarts
    /\ \A m \in (e + 1)..k : BlockLevel(toks, m) > BlockLevel(toks, e)
    /\ BlockLevel(toks, k) = BlockLevel(toks, e) + 1

\* the column of the block the e-th token starts: of the '-', or of the key
BlockColumn(toks, e) ==
    IF toks[e].t = "BlockMappingStart" /\ e < Len(toks) /\ toks[e + 1].t = "Key"
    THEN toks[e + 1].mark.col
    ELSE toks[e].mark.col

\* p and q are simple keys of the block context at the same column, and the
\* block of the key at p is open still at q
KeysAtOneColumn(toks, p, q) ==
    /\ p < q
    /\ SimpleKeyAt(toks, p) /\ SimpleKeyAt(toks, q)
    /\ toks[p].mark.col = toks[q].mark.col
    /\ OpenUpTo(toks, p, q)

\* a BlockMappingStart stands before a simple key only when the key's column
\* is greater than the column of the enclosing block
MappingStartsToTheRight ==
    \A q \in 2..Len(AllTokens) : \A e \in 1..(q - 2) :
        (/\ SimpleKeyAt(AllTokens, q)
         /\ AllTokens[q - 1].t = "BlockMappingStart"
         /\ Encloses(AllTokens, e, q - 1))
        => AllTokens[q].mark.col > BlockColumn(AllTokens, e)

-----------------------------------------------------------------------------
(* The ids of the anchors (register_anchor, parse_node, load): anchored     *)
(* nodes of two names, aliases and document starts.                         *)

PiecesAnchor ==
    {<<"&", "a", SP, "a">>, <<"&", "b", SP, "{">>, <<"&", "a", SP, "[">>, <<"*", "a">>,
     <<",">>, <<LF, "-", "-", "-", SP>>}

AnchorInit ==
    /\ input \in Concats(PiecesAnchor, MaxPieces)
    /\ sc = ScannerNew
    /\ out = <<>>
    /\ nones = 0
    /\ ps = ParserNew
    /\ events = <<>>
    /\ ld = LoadNew
    /\ loader = LoaderNew

AnchorSpec == AnchorInit /\ [][ParserNext]_vars

\* the tokens the parser has taken from the scanner and is done with: all but
\* the one it has peeked
TokensTaken == IF ps.token = None THEN out ELSE Front(out)

\* the positions of the events of anchored nodes, and of the events of aliases
AnchoredEvents ==
    {i \in 1..Len(events) : /\ events[i].ev.e \in {"Scalar", "SequenceStart", "MappingStart"}
                            /\ events[i].ev.anchor_id # 0}
AliasEvents == {i \in 1..Len(events) : events[i].ev.e = "Alias"}

\* the number of the indices of I up to i
Rank(I, i) == Cardinality({k \in I : k <= i})

\* the m-th index of I
Nth(I, m) == CHOOSE i \in I : Rank(I, i) = m

\* the Anchor token that an Alias token at j of toks refers to: the last of
\* its name before it, in its document
AnchorsFor(toks, j) ==
    {i \in 1..(j - 1) : /\ toks[i].t = "Anchor" /\ toks[i].v = toks[j].v
                        /\ \A k \in i..j : toks[k].t # "DocumentStart"}

\* C36: the anchors are numbered 1, 2, 3, ... in the order of their tokens
\* through all the documents, also for a name registered before, and an Alias
\* event has the number of the last Anchor token of its name in its document.
AnchorIdsAreFresh ==
    LET anchors == Places(TokensTaken, "Anchor")
        aliases == Places(TokensTaken, "Alias")
    IN /\ ps.anchor_id = Cardinality(anchors) + 1
       /\ \A i \in AnchoredEvents : events[i].ev.anchor_id = Rank(AnchoredEvents, i)
       /\ Cardinality(AnchoredEvents) <= Cardinality(anchors)
       /\ Cardinality(AliasEvents) <= Cardinality(aliases)
       /\ \A i \in AliasEvents :
              LET j == Nth(aliases, Rank(AliasEvents, i))
              IN /\ AnchorsFor(TokensTaken, j) # {}
                 /\ events[i].ev.anchor_id
                      = Rank(anchors, CHOOSE a \in AnchorsFor(TokensTaken, j) :
                                          \A b \in AnchorsFor(TokensTaken, j) : b <= a)

\* in "&a [&a a,*a" the alias has the id of the second anchor of the name
AliasOfSecondAnchor ==
    /\ input = <<"&", "a", SP, "[", "&", "a", SP, "a", ",", "*", "a">>
    /\ \E i \in AliasEvents : events[i].ev.anchor_id = 2

\* a second document has been started after an anchored node: its anchor has
\* the id 2
SecondDocumentAnchor ==
    /\ input = <<"&", "a", SP, "a", LF, "-", "-", "-", SP, "&", "a", SP, "a">>
    /\ ps.anchor_id = 3


-----------------------------------------------------------------------------
(* The end of a document and what follows it (document_end,                 *)
(* document_start, _explict_document_start): scalars, flow collections,     *)
(* "...", "---" and directives.                                             *)

PiecesFollow ==
    {<<"a">>, <<"[", "a", "]">>, <<"{", "a", "}">>, <<LF, ".", ".", ".", LF>>,
     <<"-", "-", "-", LF>>, <<"%", "X", LF>>}

FollowInit ==
    /\ input \in Concats(PiecesFollow, MaxPieces)
    /\ sc = ScannerNew
    /\ out = <<>>
    /\ nones = 0
    /\ ps = ParserNew
    /\ events = <<>>
    /\ ld = LoadNew
    /\ loader = LoaderNew

FollowSpec == FollowInit /\ [][ParserNext]_vars

Directives == {"VersionDirective", "TagDirective"}

\* the first of the tokens toks that is neither a DocumentEnd nor a directive
FirstOther(toks) ==
    FirstOf({i \in 1..Len(toks) : toks[i].t \notin Directives \cup {"DocumentEnd"}}, Len(toks))

\* a step of the parser in the state DocumentEnd, after the root node, gives
\* the event DocumentEnd and takes a token only if it is DocumentEnd
DocumentEndEmitted ==
    (ps.state = "DocumentEnd" /\ events' # events)
    => /\ StepEvent.e = "DocumentEnd"
       /\ ps'.state = "DocumentStart"
       /\ \A i \in 1..Len(StepTaken) : StepTaken[i].t = "DocumentEnd"

\* a step of the parser in the state DocumentStart, after a document: the
\* tokens it takes are DocumentEnd tokens, directives, DocumentStart and
\* StreamEnd, and when the first token it sees that is no DocumentEnd and no
\* directive is another one, load fails at that token
OnlyDocumentMarkersFollow ==
    (ps.state = "DocumentStart" /\ ld' # ld)
    => /\ \A i \in 1..Len(StepTaken) :
              StepTaken[i].t \in Directives \cup {"DocumentEnd", "DocumentStart", "StreamEnd"}
       /\ events' # events => StepEvent.e \in {"DocumentStart", "StreamEnd"}
       /\ LET k == FirstOther(StepSeen)
          IN (k <= Len(StepSeen) /\ StepSeen[k].t \notin {"DocumentStart", "StreamEnd"})
             => /\ events' = events
                /\ ld'.ret = "Err"
                /\ ld'.err = Some(ScanError(StepSeen[k].mark,
                                            "did not find expected <document start>"))

-----------------------------------------------------------------------------
(* The stack of states of the parser (push_state, pop_state).               *)

DocumentStates == {"ImplicitDocumentStart", "DocumentStart", "DocumentEnd", "End"}

\* between documents nothing is left on the stack, and pop_state has not
\* found the stack empty
StackEmptyBetweenDocuments ==
    /\ ps.state \in DocumentStates => ps.states = <<>>
    /\ ld.err # None => ld.err[1].info # "PANIC: pop_state on an empty stack"

\* a step that gives an event changes the height of the stack by one at
\* most: it grows only at the first event of a document or of a collection,
\* and shrinks only at the last event of a node
PushedOncePoppedOnce ==
    Len(events') = Len(events) + 1
    => /\ Len(ps'.states) - Len(ps.states) \in {-1, 0, 1}
       /\ Len(ps'.states) > Len(ps.states)
          => StepEvent.e \in {"DocumentStart", "SequenceStart", "MappingStart"}
       /\ Len(ps'.states) < Len(ps.states)
          => StepEvent.e \in {"Scalar", "Alias", "SequenceEnd", "MappingEnd"}

\* C38: the parser never calls pop_state on an empty stack of states, in the
\* states ImplicitDocumentStart, DocumentStart, DocumentEnd and End the stack
\* is empty, and a state pushed for a node is popped once, at the node's last
\* event.
StateStackBalanced == []StackEmptyBetweenDocuments /\ [][PushedOncePoppedOnce]_vars

\* a flow sequence in a block sequence has been parsed to the end of its
\* document
NestedNodesPopped ==
    /\ input = <<"-", SP, "[", "]">>
    /\ ps.state = "DocumentEnd"
    /\ ps.states = <<>>
    /\ Len(events) = 6
    /\ ld.ret = "running"


-----------------------------------------------------------------------------
(* The grammar of the events of a document, as load, load_document,         *)
(* load_node, load_sequence and load_mapping read them.                     *)

\* one more child of the innermost open production
Child(open) == [open EXCEPT ![Len(open)].n = @ + 1]

\* the events evs from the i-th on continue the productions that are open:
\* "doc" for a document, "seq" and "map" for the collections, each with the
\* number of its children so far; outside a document only the events of the
\* stream are looked at
RECURSIVE Follows(_, _, _)
Follows(evs, i, open) ==
    IF i > Len(evs) THEN TRUE
    ELSE LET e == evs[i].ev.e IN
         IF open = <<>>
         THEN /\ e \in {"StreamStart", "StreamEnd", "DocumentStart"}
              /\ Follows(evs, i + 1, IF e = "DocumentStart" THEN <<[k |-> "doc", n |-> 0]>> ELSE <<>>)
         ELSE LET top == Last(open)
                  node == top.k = "doc" => top.n = 0
              IN CASE e \in {"Scalar", "Alias"} ->
                        node /\ Follows(evs, i + 1, Child(open))
                   [] e = "SequenceStart" ->
                        node /\ Follows(evs, i + 1, Append(Child(open), [k |-> "seq", n |-> 0]))
                   [] e = "MappingStart" ->
                        node /\ Follows(evs, i + 1, Append(Child(open), [k |-> "map", n |-> 0]))
                   [] e = "SequenceEnd" ->
                        top.k = "seq" /\ Follows(evs, i + 1, Front(open))
                   [] e = "MappingEnd" ->
                        top.k = "map" /\ top.n % 2 = 0 /\ Follows(evs, i + 1, Front(open))
                   [] e = "DocumentEnd" ->
                        top.k = "doc" /\ top.n = 1 /\ Follows(evs, i + 1, <<>>)
                   [] OTHER -> FALSE

LoadPanics ==
    {"PANIC: load expects StreamStart", "PANIC: load_document expects DocumentStart",
     "PANIC: load_document expects DocumentEnd", "PANIC: load_node unreachable event"}

\* C39: the events of a document follow the grammar node ::= Scalar | Alias |
\* SequenceStart node* SequenceEnd | MappingStart (node node)* MappingEnd,
\* the event after the root node is DocumentEnd, and the assert_eq! of load
\* and load_document and the unreachable! of load_node are never hit.
EventsFollowGrammar ==
    /\ Follows(events, 1, <<>>)
    /\ ld.err # None => ld.err[1].info \notin LoadPanics

\* a block mapping whose key has no value, read to the end of its document
MappingWithAbsentValueRead ==
    /\ input = <<"a", ":", SP>>
    /\ ld.ret = "Ok"
    /\ \E i \in 1..Len(events) : events[i].ev.e = "MappingEnd"
    /\ \E i \in 1..Len(events) : events[i].ev.e = "DocumentEnd"


-----------------------------------------------------------------------------
(* Keys and values in the loader (insert_new_node).                         *)

CollectionStarts == {"SequenceStart", "MappingStart"}
CollectionEnds == {"SequenceEnd", "MappingEnd"}

\* the starts less the ends of collections among events a..b of evs
Depth(evs, a, b) ==
    Cardinality({k \in a..b : evs[k].ev.e \in CollectionStarts})
    - Cardinality({k \in a..b : evs[k].ev.e \in CollectionEnds})

\* the index of the first event of the innermost collection that is open
\* after evs, 0 when none is
OpenCollection(evs) ==
    LET open == {i \in 1..Len(evs) : /\ evs[i].ev.e \in CollectionStarts
                                     /\ Depth(evs, i + 1, Len(evs)) = 0}
    IN IF open = {} THEN 0 ELSE CHOOSE i \in open : \A j \in open : j <= i

\* the number of children of the collection that starts at event m of evs
Children(evs, m) ==
    Cardinality({k \in (m + 1)..Len(evs) :
                    /\ Depth(evs, m + 1, k) = 0
                    /\ evs[k].ev.e \in {"Scalar", "Alias"} \cup CollectionEnds})

\* the next child of the open mapping, a scalar
NextChild == <<NodeScalar(YString(<<"a">>)), 0>>

\* C40: the children of a mapping are paired in their order: after an odd
\* number of children the next child is stored as the value of the last one,
\* and the slot of the key is free again; after an even number the next child
\* is held as a key. A child that is BadValue counts as any other.
ChildrenPairedInOrder ==
    LET m == OpenCollection(events) IN
    (m > 0 /\ events[m].ev.e = "MappingStart" /\ ~loader.panic)
    => (Children(events, m) % 2 = 1
        <=> is_badvalue(Last(insert_new_node(loader, NextChild).key_stack)))

=============================================================================
